---- MODULE Spec2Model ----
(***************************************************************************)
(* Project discovery engine of ProjectManager: the directory scanner       *)
(* (src/src/scanner.py) and the language / framework classifier            *)
(* (src/src/utils/detector.py), over an explicit model of the filesystem   *)
(* and of pathlib paths.                                                    *)
(***************************************************************************)
EXTENDS Integers, Sequences, FiniteSets, TLC

VARIABLES
    fs,           \* the filesystem: physical path -> node
    directories,  \* scan_directories(directories, ...): sequence of Path
    max_depth,    \* ProjectScanner.max_depth
    pc,           \* position of the running entry point
    di,           \* index in `directories` of the root being scanned
    remaining,    \* entries of the running iterdir() not yet produced
    projects,     \* scan_directories: the list being built
    seen_paths,   \* scan_directories: the dedup set
    yielded,      \* history: every project a generator yielded, in order
    stack,        \* _scan_recursive: the chain of suspended generator frames
    target_dir,   \* the directory handed to the classifier / to _scan_recursive
    languages,    \* result of detect_languages: <<>> before the call, <<list>> after
    outcome,      \* how the running entry point ended: <<>> while it runs, then Return(v) or Raise
    denied,       \* physical paths whose permission bits are all cleared (mode 000)
    db,           \* Database: the rows of table projects, keyed by the path column
    _projects,    \* ProjectManagerApp._projects
    earlier       \* history: what earlier calls of the entry point returned or were given

\* the state outside the scanner and the classifier
ext_vars == <<outcome, denied, db, _projects, earlier>>

vars == <<fs, directories, max_depth, pc, di, remaining, projects, seen_paths,
          yielded, stack, target_dir, languages, ext_vars>>

\* nothing outside the scanner and the classifier is in play
ExtIdle ==
    /\ outcome = <<>>
    /\ denied = {}
    /\ db = <<>>
    /\ _projects = <<>>
    /\ earlier = <<>>

(***************************************************************************)
(* Bounds of the model.                                                    *)
(***************************************************************************)
MaxRoots == 2       \* configured scan roots per run
MaxChildren == 2    \* entries below a scan root
MaxDepth == 2       \* largest max_depth explored
MaxFiles == 2       \* top-level files of a classified directory

(***************************************************************************)
(* Names.  File and directory names are strings; the three string          *)
(* primitives the code applies to them (str.lower, str.startswith('.'),    *)
(* Path.suffix) are tabulated over the names that occur in the model.      *)
(***************************************************************************)
UpperToLower ==
    ("Lib" :> "lib") @@ ("Build" :> "build") @@ ("Target" :> "target") @@
    ("MAIN.RS" :> "main.rs") @@ (".RS" :> ".rs") @@ ("React" :> "react")

\* str.lower()
lower(s) == IF s \in DOMAIN UpperToLower THEN UpperToLower[s] ELSE s

DotNames == {".git", ".hid", ".venv", ".env", ".svn", ".hg", ".idea", ".vscode",
             ".vs", ".cache", ".tox", ".mypy_cache", ".pytest_cache", ".coverage",
             ".x.rs"}

\* str.startswith('.')
startswith_dot(s) == s \in DotNames

SuffixTable ==
    ("main.rs" :> ".rs") @@ ("MAIN.RS" :> ".RS") @@ (".x.rs" :> ".rs") @@
    ("main.py" :> ".py") @@ ("a.lua" :> ".lua") @@ ("app.sln" :> ".sln") @@
    ("app.csproj" :> ".csproj") @@
    ("random.txt" :> ".txt") @@ ("notes.txt" :> ".txt") @@
    ("requirements.txt" :> ".txt") @@ ("CMakeLists.txt" :> ".txt") @@
    ("package.json" :> ".json") @@ ("pyproject.toml" :> ".toml") @@
    ("Cargo.toml" :> ".toml") @@ ("go.mod" :> ".mod") @@
    ("build.gradle.kts" :> ".kts") @@ ("tsconfig.json" :> ".json") @@
    ("pom.xml" :> ".xml") @@ ("composer.json" :> ".json") @@
    ("Package.swift" :> ".swift") @@ ("pubspec.yaml" :> ".yaml") @@
    ("mix.exs" :> ".exs") @@ ("stack.yaml" :> ".yaml") @@ ("build.sbt" :> ".sbt") @@
    ("manage.py" :> ".py") @@ ("angular.json" :> ".json") @@
    ("next.config.mjs" :> ".mjs") @@ ("main.rs.bak" :> ".bak") @@
    ("next.config.js" :> ".js") @@ ("next.config.ts" :> ".ts") @@
    ("tauri.conf.json" :> ".json")

\* PurePath.suffix
suffix(s) == IF s \in DOMAIN SuffixTable THEN SuffixTable[s] ELSE ""

(***************************************************************************)
(* pathlib paths.  A Path is its anchor (absolute or not) and its parts;   *)
(* the constructor drops empty parts (doubled or trailing slashes) and "." *)
(* parts, and nothing else: ".." and symbolic links are kept as written.   *)
(* Two Paths are equal iff anchor and parts are equal.                     *)
(***************************************************************************)
Path(abs, raw_parts) ==
    [abs |-> abs, parts |-> SelectSeq(raw_parts, LAMBDA c : c # "" /\ c # ".")]

\* path / name
Join(path, name_) == [path EXCEPT !.parts = Append(@, name_)]

\* path.name
name(path) == IF path.parts = <<>> THEN "" ELSE path.parts[Len(path.parts)]

(***************************************************************************)
(* The filesystem.  A node is a directory, a regular file or a symbolic    *)
(* link; Resolve is the kernel's path lookup, which follows links.         *)
(***************************************************************************)
cwd == <<"home">>

Missing == <<"", "missing">>

Undecodable == {"<invalid utf-8>"}

\* `readable` is the read permission bit of a directory: without it the
\* directory cannot be listed, while its entries can still be looked up by name
Node(kind, target, text, mtime) ==
    [kind |-> kind, target |-> target, text |-> text, mtime |-> mtime, entries |-> {},
     readable |-> TRUE]

Dir(p) == p :> Node("dir", <<>>, {}, 1)
File(p, text, mtime) == p :> Node("file", <<>>, text, mtime)
Link(p, target) == p :> Node("link", target, {}, 1)

\* a directory holds the names of its entries
WithEntries(f) ==
    [p \in DOMAIN f |->
        IF f[p].kind = "dir"
        THEN [f[p] EXCEPT !.entries =
                 { q[Len(q)] : q \in { r \in DOMAIN f : /\ Len(r) = Len(p) + 1
                                                        /\ SubSeq(r, 1, Len(p)) = p } }]
        ELSE f[p]]

RECURSIVE Walk(_, _, _)
Walk(f, cur, parts) ==
    IF parts = <<>> THEN cur
    ELSE LET nxt == Append(cur, Head(parts)) IN
         IF cur \notin DOMAIN f \/ f[cur].kind # "dir" THEN Missing
         ELSE IF Head(parts) \notin f[cur].entries THEN Missing
         ELSE IF f[nxt].kind = "link"
              THEN IF f[nxt].target \in DOMAIN f
                   THEN Walk(f, f[nxt].target, Tail(parts))
                   ELSE Missing
              ELSE Walk(f, nxt, Tail(parts))

Resolve(path) == Walk(fs, IF path.abs THEN <<>> ELSE cwd, path.parts)

\* Path.exists(), Path.is_dir(), Path.is_file(): all follow links
exists(path) == Resolve(path) # Missing
is_dir(path) == LET r == Resolve(path) IN r # Missing /\ fs[r].kind = "dir"
is_file(path) == LET r == Resolve(path) IN r # Missing /\ fs[r].kind = "file"

\* os.listdir(path): the names in a directory, in no particular order
listdir(path) == fs[Resolve(path)].entries

\* variant: a listing that also returns the entries of the child directories
iterdir_with_grandchildren(path) ==
    { Join(path, n) : n \in listdir(path) }
    \cup UNION { { Join(Join(path, n), m) : m \in listdir(Join(path, n)) } :
                    n \in { n \in listdir(path) : is_dir(Join(path, n)) } }

\* Path.iterdir(): the directory's entries as paths below `path`
iterdir(path) == { Join(path, n) : n \in listdir(path) }

\* Path.stat().st_mtime
st_mtime(path) == fs[Resolve(path)].mtime

\* The same lookups for (dir / name), (dir / a / b), ... where `d` is what the
\* path `dir` resolves to: the kernel walks `dir`, then the parts joined to it.
ResolveAt(d, parts) == Walk(fs, d, parts)
exists_at(d, parts) == ResolveAt(d, parts) # Missing
is_dir_at(d, parts) == LET r == ResolveAt(d, parts) IN r # Missing /\ fs[r].kind = "dir"
is_file_at(d, parts) == LET r == ResolveAt(d, parts) IN r # Missing /\ fs[r].kind = "file"

(***************************************************************************)
(* Fixed tables of the scanner (scanner.py).                               *)
(***************************************************************************)
PROJECT_MARKERS ==
    <<".git", "package.json", "Cargo.toml", "pyproject.toml", "setup.py",
      "requirements.txt", "go.mod", "pom.xml", "build.gradle", "build.gradle.kts",
      "Makefile", "CMakeLists.txt", "Gemfile", "composer.json", "pubspec.yaml",
      "mix.exs", "stack.yaml", "Package.swift">>

\* '*.sln', '*.csproj', each by the suffix a name must end with
PROJECT_FILE_PATTERNS == <<".sln", ".csproj">>

SKIP_DIRECTORIES ==
    {"node_modules", "venv", ".venv", "env", ".env", "__pycache__", ".git", ".svn",
     ".hg", "target", "build", "dist", "out", "bin", "obj", ".idea", ".vscode", ".vs",
     "vendor", "packages", ".cache", ".tox", ".mypy_cache", ".pytest_cache",
     "coverage", ".coverage", "htmlcov", "sdk", "lib", "libs", "third_party",
     "external", "deps", "dependencies"}

\* the files _get_last_modified looks at, each as the parts joined to the directory
check_files ==
    << <<".git", "FETCH_HEAD">>, <<".git", "index">>, <<"package.json">>,
       <<"Cargo.toml">>, <<"pyproject.toml">>, <<"go.mod">> >>

(***************************************************************************)
(* Fixed tables of the classifier (detector.py), in declaration order.     *)
(***************************************************************************)
Lang(n, files, extensions, priority) ==
    [name |-> n, files |-> files, extensions |-> extensions, priority |-> priority]

LANGUAGE_MARKERS ==
    << Lang("Python", <<"pyproject.toml", "setup.py", "requirements.txt", "Pipfile", "setup.cfg">>, {".py"}, 1),
       Lang("JavaScript", <<"package.json">>, {".js", ".jsx"}, 2),
       Lang("TypeScript", <<"tsconfig.json">>, {".ts", ".tsx"}, 2),
       Lang("Rust", <<"Cargo.toml">>, {".rs"}, 1),
       Lang("Go", <<"go.mod", "go.sum">>, {".go"}, 1),
       Lang("Java", <<"pom.xml", "build.gradle", "build.gradle.kts">>, {".java"}, 2),
       Lang("Kotlin", <<"build.gradle.kts">>, {".kt", ".kts"}, 2),
       Lang("C#", <<>>, {".cs", ".csproj", ".sln"}, 2),
       Lang("C++", <<"CMakeLists.txt">>, {".cpp", ".cxx", ".cc", ".hpp", ".hxx"}, 3),
       Lang("C", <<"Makefile", "CMakeLists.txt">>, {".c", ".h"}, 4),
       Lang("Ruby", <<"Gemfile", "Rakefile">>, {".rb"}, 2),
       Lang("PHP", <<"composer.json">>, {".php"}, 2),
       Lang("Swift", <<"Package.swift">>, {".swift"}, 1),
       Lang("Dart", <<"pubspec.yaml">>, {".dart"}, 1),
       Lang("Elixir", <<"mix.exs">>, {".ex", ".exs"}, 1),
       Lang("Haskell", <<"stack.yaml", "cabal.project">>, {".hs"}, 1),
       Lang("Scala", <<"build.sbt">>, {".scala"}, 1),
       Lang("Lua", <<>>, {".lua"}, 3),
       Lang("Shell", <<>>, {".sh", ".bash", ".zsh"}, 5) >>

\* content_check is <<>> for None, else <<file, keywords>>
Framework(n, files, content_check) ==
    [name |-> n, files |-> files, content_check |-> content_check]

FRAMEWORK_MARKERS ==
    << Framework("React", <<"package.json">>, <<"package.json", {"react", "react-dom"}>>),
       Framework("Vue", <<"package.json">>, <<"package.json", {"vue"}>>),
       Framework("Angular", <<"angular.json">>, <<>>),
       Framework("Next.js", <<"next.config.js", "next.config.mjs", "next.config.ts">>, <<>>),
       Framework("Django", <<"manage.py">>, <<"manage.py", {"django"}>>),
       Framework("Flask", <<>>, <<"requirements.txt", {"flask"}>>),
       Framework("FastAPI", <<>>, <<"requirements.txt", {"fastapi"}>>),
       Framework("Rails", <<"Gemfile">>, <<"Gemfile", {"rails"}>>),
       Framework("Laravel", <<"artisan">>, <<>>),
       Framework("Spring", <<>>, <<"pom.xml", {"spring"}>>),
       Framework(".NET", <<>>, <<>>),
       Framework("Flutter", <<"pubspec.yaml">>, <<"pubspec.yaml", {"flutter"}>>),
       Framework("Electron", <<"package.json">>, <<"package.json", {"electron"}>>),
       Framework("Tauri", <<"tauri.conf.json", "src-tauri">>, <<>>) >>

\* the names the extension search passes over, compared as written
\* variant: a denylist of the extension search that lacks 'target'
search_skip_names_without_target == {"node_modules", "venv", "__pycache__", "build", "dist"}

search_skip_names == {"node_modules", "venv", "__pycache__", "target", "build", "dist"}

\* default of _has_files_with_extensions' max_depth parameter
search_max_depth == 2

(***************************************************************************)
(* File contents.  A text is the set of its words; SubstringTable lists,   *)
(* for a lowercased word, the framework keywords that occur inside it (a   *)
(* word not listed contains only itself).                                  *)
(***************************************************************************)
SubstringTable ==
    ("react-dom" :> {"react", "react-dom"}) @@ ("preact" :> {"react"}) @@
    ("vuex" :> {"vue"})

\* keyword in content, for lowercased content and keyword
keyword_in(keyword, content) ==
    \E word \in content :
        keyword \in (IF lower(word) \in DOMAIN SubstringTable
                     THEN SubstringTable[lower(word)] \cup {lower(word)}
                     ELSE {lower(word)})

\* A call either returns a value or raises.
Return(v) == [raised |-> FALSE, value |-> v]
Raise == [raised |-> TRUE, value |-> FALSE]

(***************************************************************************)
(* detector.py                                                             *)
(***************************************************************************)
\* read_text() of a directory raises IsADirectoryError, which the handler
\* (PermissionError, UnicodeDecodeError) does not catch; opening an entry
\* without permissions raises PermissionError, which it does.  `d` is the resolved
\* project directory and `file_name` the name joined to it.
_file_contains_keywords(d, file_name, keywords) ==
    LET r == ResolveAt(d, <<file_name>>) IN
    IF r = Missing THEN Return(FALSE)
    ELSE IF r \in denied THEN Return(FALSE)
    ELSE IF fs[r].kind = "dir" THEN Raise
    ELSE IF fs[r].text = Undecodable THEN Return(FALSE)
    ELSE Return(\E keyword \in keywords : keyword_in(lower(keyword), fs[r].text))

\* search(current_path, depth), with current_path resolved to `d`
RECURSIVE search(_, _, _, _)
search(d, depth, extensions, max_depth_) ==
    IF depth > max_depth_ THEN FALSE
    ELSE \E n \in fs[d].entries :
            /\ ~(startswith_dot(n) \/ n \in search_skip_names)
            /\ IF is_file_at(d, <<n>>)
               THEN lower(suffix(n)) \in extensions
               ELSE /\ is_dir_at(d, <<n>>)
                    /\ depth < max_depth_
                    /\ search(ResolveAt(d, <<n>>), depth + 1, extensions, max_depth_)

\* variant: a search that goes one level deeper
_has_files_with_extensions_one_deeper(d, extensions, max_depth_) ==
    search(d, 0, extensions, max_depth_ + 1)

_has_files_with_extensions(d, extensions, max_depth_) ==
    search(d, 0, extensions, max_depth_)

\* variant: the detected languages left in table order
unsorted(items) == items

\* sorted(items, key=priority): Python's sort is stable
InsertByPriority(s, x) ==
    LET k == Cardinality({i \in 1..Len(s) : s[i].priority <= x.priority}) IN
    SubSeq(s, 1, k) \o <<x>> \o SubSeq(s, k + 1, Len(s))

RECURSIVE sorted(_)
sorted(items) ==
    IF items = <<>> THEN <<>>
    ELSE InsertByPriority(sorted(SubSeq(items, 1, Len(items) - 1)), items[Len(items)])

\* variant: the marker loop passes over the first file of 'files'
language_detected_after_first_marker(d, markers) ==
    LET by_marker == \E i \in 2..Len(markers.files) : exists_at(d, <<markers.files[i]>>)
    IN \/ by_marker
       \/ /\ markers.extensions # {}
          /\ ~by_marker
          /\ _has_files_with_extensions(d, markers.extensions, search_max_depth)

\* variant: the extension search serves only the languages without marker files
language_detected_without_fallback(d, markers) ==
    \/ \E i \in 1..Len(markers.files) : exists_at(d, <<markers.files[i]>>)
    \/ /\ markers.files = <<>>
       /\ markers.extensions # {}
       /\ _has_files_with_extensions(d, markers.extensions, search_max_depth)

\* one pass of the loop over LANGUAGE_MARKERS: is the language put in `detected`?
language_detected(d, markers) ==
    LET by_marker == \E i \in 1..Len(markers.files) : exists_at(d, <<markers.files[i]>>)
    IN \/ by_marker
       \/ /\ markers.extensions # {}
          /\ ~by_marker
          /\ _has_files_with_extensions(d, markers.extensions, search_max_depth)

detect_languages(project_path) ==
    LET d == Resolve(project_path) IN
    IF d = Missing THEN <<>>
    ELSE LET detected == SelectSeq(LANGUAGE_MARKERS, LAMBDA m : language_detected(d, m))
             sorted_languages == sorted(detected)
         IN [i \in 1..Len(sorted_languages) |-> sorted_languages[i].name]

\* variant: a marker file confirms a framework without looking at its content
framework_by_markers_alone(d, markers) ==
    \E i \in 1..Len(markers.files) : exists_at(d, <<markers.files[i]>>)

\* One pass of the loop over FRAMEWORK_MARKERS.  The marker loop calls
\* _file_contains_keywords once per existing marker file until one matches;
\* the content-only rule calls it when the framework is not yet detected.
framework_by_markers(d, markers) ==
    \E i \in 1..Len(markers.files) :
        /\ exists_at(d, <<markers.files[i]>>)
        /\ \/ Len(markers.content_check) = 0
           \/ /\ Len(markers.content_check) # 0
              /\ _file_contains_keywords(d, markers.content_check[1],
                                         markers.content_check[2]).value

framework_by_content(d, markers) ==
    /\ Len(markers.content_check) # 0
    /\ exists_at(d, <<markers.content_check[1]>>)
    /\ _file_contains_keywords(d, markers.content_check[1], markers.content_check[2]).value

framework_raises(d, markers) ==
    /\ Len(markers.content_check) # 0
    /\ \/ \E i \in 1..Len(markers.files) : exists_at(d, <<markers.files[i]>>)
       \/ exists_at(d, <<markers.content_check[1]>>)
    /\ _file_contains_keywords(d, markers.content_check[1], markers.content_check[2]).raised

\* (project_path / marker_file).exists() inside a directory without
\* permissions raises PermissionError (stat fails with EACCES)
detect_frameworks(project_path) ==
    LET d == Resolve(project_path) IN
    IF d = Missing THEN Return(<<>>)
    ELSE IF d \in denied THEN Raise
    ELSE IF \E i \in 1..Len(FRAMEWORK_MARKERS) : framework_raises(d, FRAMEWORK_MARKERS[i])
    THEN Raise
    ELSE LET detected ==
                SelectSeq(FRAMEWORK_MARKERS,
                          LAMBDA m : \/ framework_by_markers(d, m)
                                     \/ /\ ~framework_by_markers(d, m)
                                        /\ framework_by_content(d, m))
         IN Return([i \in 1..Len(detected) |-> detected[i].name])

(***************************************************************************)
(* scanner.py: ProjectScanner                                              *)
(***************************************************************************)
\* variant: the skip test without lowercasing the name
_should_skip_case_sensitive(path) ==
    \/ startswith_dot(name(path))
    \/ name(path) \in SKIP_DIRECTORIES

_should_skip(path) ==
    \/ startswith_dot(name(path))
    \/ lower(name(path)) \in SKIP_DIRECTORIES

\* path.glob('*<suffix>') is non-empty; a path that is no directory matches nothing
glob_matches(d, pattern) ==
    /\ d # Missing
    /\ \E n \in fs[d].entries : suffix(n) = pattern

_is_project(path) ==
    LET d == Resolve(path) IN
    \/ \E i \in 1..Len(PROJECT_MARKERS) : exists_at(d, <<PROJECT_MARKERS[i]>>)
    \/ \E i \in 1..Len(PROJECT_FILE_PATTERNS) : glob_matches(d, PROJECT_FILE_PATTERNS[i])

\* _is_project as a call: (path / marker).exists() inside a directory without
\* permissions raises PermissionError, outside the try block of the glob loop;
\* the glob of a directory that cannot be listed raises it inside that block
is_project_call(path) ==
    LET d == Resolve(path) IN
    IF d \in denied THEN Raise
    ELSE IF d # Missing /\ ~fs[d].readable
    THEN Return(\E i \in 1..Len(PROJECT_MARKERS) : exists_at(d, <<PROJECT_MARKERS[i]>>))
    ELSE Return(_is_project(path))

SetMax(S) == CHOOSE x \in S : \A y \in S : y <= x

\* a stat() inside _get_last_modified raises: the directory is gone (its own
\* stat fails once no activity file is found), or the directory or the .git
\* directory in it has no permissions (the stat of an activity file fails)
stat_fails(d) ==
    \/ d = Missing
    \/ d \in denied
    \/ \E j \in 1..Len(check_files) :
          /\ Len(check_files[j]) > 1
          /\ ResolveAt(d, SubSeq(check_files[j], 1, Len(check_files[j]) - 1)) \in denied

\* variant: the modification time of the last activity file found, without
\* the comparison
_get_last_modified_last_found(path) ==
    LET d == Resolve(path)
        found == SelectSeq(check_files, LAMBDA file_name : exists_at(d, file_name))
    IN IF stat_fails(d) THEN <<>>
       ELSE IF found = <<>> THEN <<fs[d].mtime>>
       ELSE <<fs[ResolveAt(d, found[Len(found)])].mtime>>

\* Optional[datetime]: <<>> is None; any exception gives None
_get_last_modified(path) ==
    LET d == Resolve(path)
        mtimes == { fs[ResolveAt(d, check_files[i])].mtime :
                        i \in { j \in 1..Len(check_files) : exists_at(d, check_files[j]) } }
    IN IF stat_fails(d) THEN <<>>
       ELSE IF mtimes = {} THEN <<fs[d].mtime>> ELSE <<SetMax(mtimes)>>

\* variant: the frameworks put in front of the languages
prepend_frameworks(languages_, frameworks) == frameworks \o languages_

\* for framework in frameworks: if framework not in languages: languages.append(framework)
RECURSIVE append_frameworks(_, _)
append_frameworks(languages_, frameworks) ==
    IF frameworks = <<>> THEN languages_
    ELSE append_frameworks(
             IF \E i \in 1..Len(languages_) : languages_[i] = Head(frameworks)
             THEN languages_ ELSE Append(languages_, Head(frameworks)),
             Tail(frameworks))

\* Optional[Project]: <<>> is None.  `serial` is the identity of the object
\* (the number of the yield that hands it out); it is no field of Project.
_create_project(path, serial) ==
    LET frameworks == detect_frameworks(path) IN
    IF frameworks.raised THEN <<>>
    ELSE << [name |-> name(path),
             path |-> path,
             languages |-> append_frameworks(detect_languages(path), frameworks.value),
             last_modified |-> _get_last_modified(path),
             serial |-> serial] >>

\* scan_directory: the guard before the listing
root_is_scanned(root_path) == exists(root_path) /\ is_dir(root_path)

\* variant: a shallow scan that also asks for a marker
shallow_candidate_with_marker(item) ==
    is_dir(item) /\ ~_should_skip(item) /\ _is_project(item)

\* scan_directory: is the listed entry a candidate?
shallow_candidate(item) == is_dir(item) /\ ~_should_skip(item)

(***************************************************************************)
(* scanner.py: scan_directories, the consumer of scan_directory            *)
(***************************************************************************)
\* variant: a later record for a seen path replaces the earlier one
keep_last(projects_, seen, project) ==
    [projects |-> Append(SelectSeq(projects_, LAMBDA p : p.path # project.path), project),
     seen_paths |-> seen \cup {project.path}]

\* if project.path not in seen_paths: seen_paths.add(...); projects.append(...)
keep_first(projects_, seen, project) ==
    IF project.path \notin seen
    THEN [projects |-> Append(projects_, project), seen_paths |-> seen \cup {project.path}]
    ELSE [projects |-> projects_, seen_paths |-> seen]

\* variant: a root that is missing or no directory ends the whole scan
ScanDirectoryEndingAtBadRoot ==
    /\ pc = "for_directory"
    /\ di < Len(directories)
    /\ IF root_is_scanned(directories[di + 1])
       THEN /\ di' = di + 1
            /\ remaining' = iterdir(directories[di + 1])
            /\ pc' = "iterdir"
       ELSE /\ di' = Len(directories)
            /\ remaining' = {}
            /\ pc' = "for_directory"
    /\ UNCHANGED <<fs, directories, max_depth, projects, seen_paths, yielded, stack,
                   target_dir, languages, ext_vars>>

\* for directory in directories: the generator for the next root starts; its
\* first step tests the root and lists it
ScanDirectory ==
    /\ pc = "for_directory"
    /\ di < Len(directories)
    /\ di' = di + 1
    /\ IF root_is_scanned(directories[di + 1])
       THEN /\ remaining' = iterdir(directories[di + 1])
            /\ pc' = "iterdir"
       ELSE /\ remaining' = {}
            /\ pc' = "for_directory"
    /\ UNCHANGED <<fs, directories, max_depth, projects, seen_paths, yielded, stack,
                   target_dir, languages, ext_vars>>

\* one turn of `for item in root_path.iterdir()`, with the consumer's handling
\* of the project it yields
NextItem ==
    /\ pc = "iterdir"
    /\ \E item \in remaining :
          \E project \in { IF shallow_candidate(item)
                           THEN _create_project(item, Len(yielded) + 1)
                           ELSE <<>> } :
             /\ remaining' = remaining \ {item}
             /\ IF project # <<>>
                THEN /\ yielded' = Append(yielded, [root |-> directories[di],
                                                    root_index |-> di,
                                                    project |-> project[1]])
                     /\ projects' = keep_first(projects, seen_paths, project[1]).projects
                     /\ seen_paths' = keep_first(projects, seen_paths, project[1]).seen_paths
                ELSE UNCHANGED <<yielded, projects, seen_paths>>
    /\ UNCHANGED <<fs, directories, max_depth, pc, di, stack, target_dir, languages, ext_vars>>

\* the listing is exhausted: the generator ends, the outer loop goes on
EndIterdir ==
    /\ pc = "iterdir"
    /\ remaining = {}
    /\ pc' = "for_directory"
    /\ UNCHANGED <<fs, directories, max_depth, di, remaining, projects, seen_paths,
                   yielded, stack, target_dir, languages, ext_vars>>

\* return projects
ReturnProjects ==
    /\ pc = "for_directory"
    /\ di = Len(directories)
    /\ pc' = "done"
    /\ UNCHANGED <<fs, directories, max_depth, di, remaining, projects, seen_paths,
                   yielded, stack, target_dir, languages, ext_vars>>

(***************************************************************************)
(* The trees scan_directories is run on: /home holds the scan root w, a    *)
(* symbolic link ln to it, and below w some of the entries of ChildNames.  *)
(***************************************************************************)
RECURSIVE MergeAll(_)
MergeAll(S) ==
    IF S = {} THEN Dir(<<>>)
    ELSE LET f == CHOOSE g \in S : TRUE IN f @@ MergeAll(S \ {f})

W == <<"home", "w">>

ChildNames == {"py", "node", "emp", "Lib", ".hid", "a", "notes.txt"}

ChildTree(n) ==
    LET c == Append(W, n) IN
    CASE n = "py" ->
           Dir(c) @@ File(Append(c, "requirements.txt"), {"pytest"}, 2)
                  @@ File(Append(c, "main.py"), {"print"}, 3)
      [] n = "node" ->
           Dir(c) @@ File(Append(c, "package.json"), {"dependencies", "React"}, 4)
                  @@ Dir(Append(c, "node_modules"))
                  @@ Dir(c \o <<"node_modules", "nested">>)
                  @@ File(c \o <<"node_modules", "nested", "package.json">>, {"name"}, 2)
      [] n = "emp" ->
           Dir(c) @@ File(Append(c, "random.txt"), {"just", "a", "file"}, 2)
      [] n = "Lib" ->
           Dir(c) @@ File(Append(c, "Cargo.toml"), {"package"}, 2)
      [] n = ".hid" ->
           Dir(c) @@ File(Append(c, "package.json"), {"name"}, 2)
      [] n = "a" ->
           Dir(c) @@ Dir(Append(c, "x"))
                  @@ File(c \o <<"x", "pyproject.toml">>, {"project"}, 2)
                  @@ Dir(Append(c, "build"))
                  @@ File(c \o <<"build", "package.json">>, {"name"}, 2)
      [] OTHER -> File(c, {"notes"}, 2)

ShallowWorld(children) ==
    WithEntries(MergeAll({Dir(<<"home">>), Dir(W), Link(<<"home", "ln">>, W)}
                         \cup {ChildTree(n) : n \in children}))

\* the configured roots as written: /home/w, /home/w/, w, ./w, /home/ln, /home/w/a
RootSpellings ==
    { Path(TRUE, <<"home", "w">>), Path(TRUE, <<"home", "w", "">>),
      Path(FALSE, <<"w">>), Path(FALSE, <<".", "w">>),
      Path(TRUE, <<"home", "ln">>), Path(TRUE, <<"home", "w", "a">>) }

SeqsUpTo(S, n) == UNION { [1..k -> S] : k \in 1..n }

Init ==
    /\ \E children \in SUBSET ChildNames :
          /\ Cardinality(children) <= MaxChildren
          /\ fs = ShallowWorld(children)
    /\ directories \in SeqsUpTo(RootSpellings, MaxRoots)
    /\ max_depth \in {0, MaxDepth}
    /\ pc = "for_directory"
    /\ di = 0
    /\ remaining = {}
    /\ projects = <<>>
    /\ seen_paths = {}
    /\ yielded = <<>>
    /\ stack = <<>>
    /\ target_dir = Path(TRUE, <<>>)
    /\ languages = <<>>
    /\ ExtIdle

Next == ScanDirectory \/ NextItem \/ EndIterdir \/ ReturnProjects

Spec == Init /\ [][Next]_vars

(***************************************************************************)
(* Claims about scan_directories (specification Spec).                     *)
(***************************************************************************)
ProjectPaths == { projects[i].path : i \in 1..Len(projects) }

StrayTextFiles == {"random.txt", "notes.txt"}

\* the directory holds stray text files and nothing else
HoldsOnlyStrayText(path) ==
    /\ listdir(path) # {}
    /\ listdir(path) \subseteq StrayTextFiles

C2_OnlyMarkedDirectories ==
    \A i \in 1..Len(projects) : _is_project(projects[i].path)

\* C3: no two returned records denote the same directory, whatever the
\* spellings of the configured roots (dedup keyed on the resolved path).
C3_OneRecordPerDirectory ==
    \A i, j \in 1..Len(projects) :
        i # j => Resolve(projects[i].path) # Resolve(projects[j].path)

\* C4: the list is the yielded records in yield order, roots in configuration
\* order, less every record whose path an earlier record already had; the
\* record kept for a path is the first one yielded for it.
FirstForPath(i) ==
    \A j \in 1..(i - 1) : yielded[j].project.path # yielded[i].project.path

C4_FirstWinsInOrder ==
    /\ \A i, j \in 1..Len(yielded) : i < j => yielded[i].root_index <= yielded[j].root_index
    /\ \A i \in 1..Len(yielded) : yielded[i].root = directories[yielded[i].root_index]
    /\ \A i \in 1..Len(yielded) :
          FirstForPath(i) <=> \E p \in 1..Len(projects) : projects[p] = yielded[i].project
    /\ \A p \in 1..Len(projects) : \E i \in 1..Len(yielded) : projects[p] = yielded[i].project
    /\ \A p, q \in 1..Len(projects) : p < q => projects[p].serial < projects[q].serial

C4_Witness ==
    /\ pc = "done"
    /\ Len(projects) >= 2
    /\ \E i, j \in 1..Len(yielded) :
          /\ yielded[i].root_index < yielded[j].root_index
          /\ yielded[i].project.path = yielded[j].project.path
          /\ \E p \in 1..Len(projects) : projects[p] = yielded[i].project

\* C5: every returned record is for a direct child directory of a configured
\* root, and the paths returned are the non-skipped child directories of the
\* roots whatever max_depth is.
ShallowChildren ==
    UNION { IF root_is_scanned(directories[k])
            THEN { item \in iterdir(directories[k]) : is_dir(item) /\ ~_should_skip(item) }
            ELSE {} : k \in 1..Len(directories) }

C5_DirectChildrenOnly ==
    /\ \A i \in 1..Len(projects) :
          \E k \in 1..Len(directories) :
              /\ projects[i].path.abs = directories[k].abs
              /\ Len(projects[i].path.parts) = Len(directories[k].parts) + 1
              /\ SubSeq(projects[i].path.parts, 1, Len(directories[k].parts)) = directories[k].parts
              /\ is_dir(projects[i].path)
    /\ pc = "done" => ProjectPaths = ShallowChildren

C5_Witness ==
    /\ pc = "done"
    /\ max_depth = MaxDepth
    /\ \E i \in 1..Len(projects) :
          \E deeper \in iterdir(projects[i].path) :
              /\ _is_project(deeper)
              /\ ~_should_skip(deeper)
              /\ deeper \notin ProjectPaths

(***************************************************************************)
(* scanner.py: _scan_recursive, run as _scan_recursive(target_dir, 0) and  *)
(* consumed to the end.  Each frame of `stack` is one suspended generator. *)
(***************************************************************************)
Frame(path, depth) == [path |-> path, depth |-> depth, started |-> FALSE, remaining |-> {}]

Top == stack[Len(stack)]
Pop == SubSeq(stack, 1, Len(stack) - 1)

\* variant: the depth test off by one
depth_reached(depth) == depth >= max_depth

\* variant: no depth test at all
depth_never_exceeded(depth) == FALSE

\* if depth > self.max_depth: return
depth_exceeded(depth) == depth > max_depth

\* variant: a frame that goes on into a directory after emitting it
RecEnterDescending ==
    /\ pc = "recursive"
    /\ stack # <<>>
    /\ ~Top.started
    /\ IF depth_exceeded(Top.depth)
       THEN /\ stack' = Pop
            /\ UNCHANGED yielded
       ELSE /\ \E project \in { IF _is_project(Top.path)
                                 THEN _create_project(Top.path, Len(yielded) + 1)
                                 ELSE <<>> } :
                  yielded' = IF project # <<>>
                             THEN Append(yielded, [root |-> target_dir, root_index |-> 1,
                                                   project |-> project[1]])
                             ELSE yielded
            /\ stack' = [stack EXCEPT ![Len(stack)] =
                            [@ EXCEPT !.started = TRUE, !.remaining = iterdir(Top.path)]]
    /\ UNCHANGED <<fs, directories, max_depth, pc, di, remaining, projects, seen_paths,
                   target_dir, languages, ext_vars>>

\* the frame on top starts: depth test, project test, listing
RecEnter ==
    /\ pc = "recursive"
    /\ stack # <<>>
    /\ ~Top.started
    /\ IF depth_exceeded(Top.depth)
       THEN /\ stack' = Pop
            /\ UNCHANGED yielded
       ELSE IF _is_project(Top.path)
       THEN \E project \in { _create_project(Top.path, Len(yielded) + 1) } :
               /\ yielded' = IF project # <<>>
                             THEN Append(yielded, [root |-> target_dir, root_index |-> 1,
                                                   project |-> project[1]])
                             ELSE yielded
               /\ stack' = Pop
       ELSE /\ stack' = [stack EXCEPT ![Len(stack)] =
                            [@ EXCEPT !.started = TRUE, !.remaining = iterdir(Top.path)]]
            /\ UNCHANGED yielded
    /\ UNCHANGED <<fs, directories, max_depth, pc, di, remaining, projects, seen_paths,
                   target_dir, languages, ext_vars>>

\* one turn of `for item in path.iterdir()`: a sub-generator for a candidate
RecNextItem ==
    /\ pc = "recursive"
    /\ stack # <<>>
    /\ Top.started
    /\ \E item \in Top.remaining :
          LET rest == [stack EXCEPT ![Len(stack)] = [@ EXCEPT !.remaining = @ \ {item}]] IN
          stack' = IF is_dir(item) /\ ~_should_skip(item)
                   THEN Append(rest, Frame(item, Top.depth + 1))
                   ELSE rest
    /\ UNCHANGED <<fs, directories, max_depth, pc, di, remaining, projects, seen_paths,
                   yielded, target_dir, languages, ext_vars>>

\* the listing is exhausted: the generator of this frame ends
RecExit ==
    /\ pc = "recursive"
    /\ stack # <<>>
    /\ Top.started
    /\ Top.remaining = {}
    /\ stack' = Pop
    /\ UNCHANGED <<fs, directories, max_depth, pc, di, remaining, projects, seen_paths,
                   yielded, target_dir, languages, ext_vars>>

\* the outermost generator ends
RecDone ==
    /\ pc = "recursive"
    /\ stack = <<>>
    /\ pc' = "rec_done"
    /\ UNCHANGED <<fs, directories, max_depth, di, remaining, projects, seen_paths,
                   yielded, stack, target_dir, languages, ext_vars>>

(***************************************************************************)
(* The trees _scan_recursive is run on: below /home/r a chain of nested    *)
(* directories, some holding a marker, at most one with a skipped name,    *)
(* and beside the chain an optional directory b.                           *)
(***************************************************************************)
R == <<"home", "r">>

ChainName(depth, skip_at) ==
    IF depth # skip_at THEN "a"
    ELSE CASE depth = 1 -> "node_modules"
           [] depth = 2 -> "Build"
           [] depth = 3 -> ".hid"
           [] OTHER -> "Lib"

RECURSIVE ChainDir(_, _)
ChainDir(depth, skip_at) ==
    IF depth = 0 THEN R ELSE Append(ChainDir(depth - 1, skip_at), ChainName(depth, skip_at))

\* the marker a chain directory holds, by its depth
MarkerAt(d, depth) ==
    CASE depth = 0 -> File(Append(d, "pyproject.toml"), {"project"}, 2)
      [] depth = 1 -> File(Append(d, "package.json"), {"name"}, 3)
      [] depth = 2 -> File(Append(d, "app.sln"), {"solution"}, 2)
      [] depth = 3 -> Dir(Append(d, ".git")) @@ File(d \o <<".git", "index">>, {"index"}, 4)
      [] OTHER -> File(Append(d, "Cargo.toml"), {"package"}, 2)

DeepWorld(len, marked, skip_at, beside) ==
    WithEntries(MergeAll(
        {Dir(<<"home">>), Dir(R)}
        \cup { Dir(ChainDir(k, skip_at)) : k \in 1..len }
        \cup { MarkerAt(ChainDir(k, skip_at), k) : k \in marked }
        \cup (IF beside = "none" THEN {} ELSE {Dir(Append(R, "b"))})
        \cup (IF beside = "marked" THEN {File(R \o <<"b", "go.mod">>, {"module"}, 2)} ELSE {})))

InitRec ==
    /\ \E len \in 0..(MaxDepth + 1) :
          \E marked \in SUBSET (0..len) :
             \E skip_at \in 0..len :
                \E beside \in {"none", "plain", "marked"} :
                   fs = DeepWorld(len, marked, skip_at, beside)
    /\ directories = <<>>
    /\ max_depth \in 0..MaxDepth
    /\ pc = "recursive"
    /\ di = 0
    /\ remaining = {}
    /\ projects = <<>>
    /\ seen_paths = {}
    /\ yielded = <<>>
    /\ target_dir = Path(TRUE, R)
    /\ stack = <<Frame(Path(TRUE, R), 0)>>
    /\ languages = <<>>
    /\ ExtIdle

NextRec == RecEnter \/ RecNextItem \/ RecExit \/ RecDone

SpecRec == InitRec /\ [][NextRec]_vars

\* both entry points of the scanner
InitScan == Init \/ InitRec
NextScan == Next \/ NextRec
SpecScan == InitScan /\ [][NextScan]_vars

(***************************************************************************)
(* Claims about the recursive mode and the skip rule.                      *)
(***************************************************************************)
IsProperAncestor(p, q) ==
    /\ p.abs = q.abs
    /\ Len(p.parts) < Len(q.parts)
    /\ SubSeq(q.parts, 1, Len(p.parts)) = p.parts

\* the directories from the scan root (included) down to path (excluded)
AncestorsWithin(root, path) ==
    { [abs |-> path.abs, parts |-> SubSeq(path.parts, 1, k)] :
         k \in Len(root.parts)..(Len(path.parts) - 1) }

\* the names on the way from the scan root (excluded) down to path (included)
NamesBelow(root, path) ==
    { path.parts[k] : k \in (Len(root.parts) + 1)..Len(path.parts) }

SkipRule(n) == startswith_dot(n) \/ lower(n) \in SKIP_DIRECTORIES

DepthOf(root, path) == Len(path.parts) - Len(root.parts)

Emitted(path) == \E i \in 1..Len(yielded) : yielded[i].project.path = path

\* the directories of the tree that lie under the scan root, as the scan names them
DirsUnder(root) ==
    { Path(TRUE, q) : q \in { q \in DOMAIN fs : fs[q].kind = "dir" /\ Len(q) >= Len(root.parts)
                                                 /\ SubSeq(q, 1, Len(root.parts)) = root.parts } }

\* no directory between the root and path stops the descent before path
Unblocked(root, path) ==
    /\ \A a \in AncestorsWithin(root, path) : ~_is_project(a)
    /\ \A n \in NamesBelow(root, path) : ~SkipRule(n)

\* C6: one recursive scan never emits both a directory and a directory below
\* it: no record lies below another record, and no record lies below a
\* directory that qualifies as a project.
C6_NoNestedRecords ==
    \A i \in 1..Len(yielded) :
       /\ \A j \in 1..Len(yielded) :
             ~IsProperAncestor(yielded[i].project.path, yielded[j].project.path)
       /\ \A a \in AncestorsWithin(yielded[i].root, yielded[i].project.path) : ~_is_project(a)

C6_Witness ==
    /\ pc = "rec_done"
    /\ \E i \in 1..Len(yielded) :
          \E child \in iterdir(yielded[i].project.path) :
             /\ is_dir(child)
             /\ ~_should_skip(child)
             /\ _is_project(child)
             /\ ~Emitted(child)

\* C7: with the root at depth 0, no record lies deeper than max_depth, and
\* when the scan has ended every marked directory at depth max_depth that no
\* project root and no skipped name separates from the root has a record.
C7_DepthBound ==
    /\ \A i \in 1..Len(yielded) :
          DepthOf(yielded[i].root, yielded[i].project.path) <= max_depth
    /\ pc = "rec_done" =>
          \A d \in DirsUnder(target_dir) :
             (/\ DepthOf(target_dir, d) = max_depth
              /\ _is_project(d)
              /\ Unblocked(target_dir, d)) => Emitted(d)

C7_Witness ==
    /\ pc = "rec_done"
    /\ \E i \in 1..Len(yielded) :
          DepthOf(target_dir, yielded[i].project.path) = max_depth
    /\ \E d \in DirsUnder(target_dir) :
          /\ DepthOf(target_dir, d) = max_depth + 1
          /\ _is_project(d)
          /\ Unblocked(target_dir, d)
          /\ ~Emitted(d)

\* C8: in both modes no record is produced for a directory below the scan
\* root whose name starts with a dot or, lowercased, is in the skip list, nor
\* for anything below such a directory.
C8_SkippedNeverEmitted ==
    \A i \in 1..Len(yielded) :
       \A n \in NamesBelow(yielded[i].root, yielded[i].project.path) : ~SkipRule(n)

C8_Witness ==
    /\ pc = "rec_done"
    /\ yielded # <<>>
    /\ \E d \in DirsUnder(target_dir) :
          /\ _is_project(d)
          /\ \A a \in AncestorsWithin(target_dir, d) : ~_is_project(a)
          /\ \E n \in NamesBelow(target_dir, d) : SkipRule(n) /\ n # name(d)
          /\ ~Emitted(d)

(***************************************************************************)
(* detect_languages applied to one project directory /home/p that holds a  *)
(* few top-level files and at most one source file in a subdirectory.      *)
(***************************************************************************)
P == <<"home", "p">>

TopNames == {"pyproject.toml", "package.json", "Cargo.toml", "go.mod", "build.gradle.kts",
             "CMakeLists.txt", "Makefile", "a.lua", "main.rs", "random.txt"}

NestedPlaces == { <<"src">>, <<"lib">>, <<"bin">>, <<"vendor">>, <<"target">>, <<"Target">>,
                  <<"build">>, <<"node_modules">>, <<".hid">>, <<"src", "a">>,
                  <<"src", "target">>, <<"src", "a", "b">> }

NestedFiles == { place \o <<"main.rs">> : place \in NestedPlaces } \cup { <<"src", "MAIN.RS">> }

DetectWorld(top, nested) ==
    WithEntries(MergeAll(
        {Dir(<<"home">>), Dir(P)}
        \cup { File(Append(P, n), {"text"}, 2) : n \in top }
        \cup UNION { { Dir(P \o SubSeq(rel, 1, k)) : k \in 1..(Len(rel) - 1) } : rel \in nested }
        \cup { File(P \o rel, {"fn"}, 3) : rel \in nested }))

InitDetect ==
    /\ \E top \in { t \in SUBSET TopNames : Cardinality(t) <= MaxFiles } :
          \E nested \in {{}} \cup { {rel} : rel \in NestedFiles } :
             fs = DetectWorld(top, nested)
    /\ directories = <<>>
    /\ max_depth = 0
    /\ pc = "detect"
    /\ di = 0
    /\ remaining = {}
    /\ projects = <<>>
    /\ seen_paths = {}
    /\ yielded = <<>>
    /\ stack = <<>>
    /\ target_dir = Path(TRUE, P)
    /\ languages = <<>>
    /\ ExtIdle

DetectLanguages ==
    /\ pc = "detect"
    /\ languages' = detect_languages(target_dir)
    /\ pc' = "detected"
    /\ UNCHANGED <<fs, directories, max_depth, di, remaining, projects, seen_paths,
                   yielded, stack, target_dir, ext_vars>>

NextDetect == DetectLanguages

SpecDetect == InitDetect /\ [][NextDetect]_vars

(***************************************************************************)
(* Claims about detect_languages.                                          *)
(***************************************************************************)
\* the place of a language in LANGUAGE_MARKERS
DeclaredAt(n) == CHOOSE i \in 1..Len(LANGUAGE_MARKERS) : LANGUAGE_MARKERS[i].name = n

PriorityOf(n) == LANGUAGE_MARKERS[DeclaredAt(n)].priority

\* the project directory holds exactly one entry, a directory named n, and
\* under it nothing but main.rs
OnlyRustFileUnder(n) ==
    /\ listdir(target_dir) = {n}
    /\ is_dir(Join(target_dir, n))
    /\ listdir(Join(target_dir, n)) = {"main.rs"}
    /\ is_file(Join(Join(target_dir, n), "main.rs"))

\* C9: the languages come out ascending by priority, equal priorities in the
\* declaration order of the table, and a directory holding just pyproject.toml
\* and package.json yields Python then JavaScript.
C9_SortedByPriority ==
    pc = "detected" =>
       /\ \A i, j \in 1..Len(languages) :
             i < j => \/ PriorityOf(languages[i]) < PriorityOf(languages[j])
                      \/ /\ PriorityOf(languages[i]) = PriorityOf(languages[j])
                         /\ DeclaredAt(languages[i]) < DeclaredAt(languages[j])
       /\ listdir(target_dir) = {"pyproject.toml", "package.json"} =>
             languages = <<"Python", "JavaScript">>

C9_Witness ==
    /\ pc = "detected"
    /\ \E i, j \in 1..Len(languages) :
          i < j /\ DeclaredAt(languages[i]) > DeclaredAt(languages[j])
    /\ \E i, j \in 1..Len(languages) :
          i < j /\ PriorityOf(languages[i]) = PriorityOf(languages[j])

\* C10 as stated: one .rs file directly in a directory without manifest gives
\* Rust, and the same file only under a subdirectory that the skip rule of the
\* scanner skips (hidden, or lowercased name in SKIP_DIRECTORIES) gives nothing.
C10_SkipListedNeverCounted ==
    pc = "detected" =>
       /\ listdir(target_dir) = {"main.rs"} => languages = <<"Rust">>
       /\ \A n \in listdir(target_dir) :
             (OnlyRustFileUnder(n) /\ SkipRule(n)) => languages = <<>>

\* C10 amended: one .rs file directly in a directory without manifest gives
\* Rust, and the same file only under a subdirectory that is hidden or named
\* exactly node_modules, venv, __pycache__, target, build or dist gives nothing.
C10_DenylistedNeverCounted ==
    pc = "detected" =>
       /\ listdir(target_dir) = {"main.rs"} => languages = <<"Rust">>
       /\ \A n \in listdir(target_dir) :
             (/\ OnlyRustFileUnder(n)
              /\ \/ startswith_dot(n)
                 \/ n \in {"node_modules", "venv", "__pycache__", "target", "build", "dist"})
             => languages = <<>>

C10_Witness ==
    /\ pc = "detected"
    /\ OnlyRustFileUnder("target")
    /\ languages = <<>>

(***************************************************************************)
(* detect_frameworks applied to one project directory /home/p whose        *)
(* entries are drawn from FrameworkEntries: marker and content-check       *)
(* targets as files with some text, as directories, or without permissions.*)
(***************************************************************************)
Entry(n, kind, text, no_access) == [name |-> n, kind |-> kind, text |-> text, no_access |-> no_access]

FrameworkEntries ==
    { Entry("package.json", "file", {"name"}, FALSE),
      Entry("package.json", "file", {"dependencies", "React"}, FALSE),
      Entry("package.json", "file", {"preact", "electron"}, FALSE),
      Entry("package.json", "file", {"vuex"}, FALSE),
      Entry("package.json", "file", Undecodable, FALSE),
      Entry("package.json", "file", {"dependencies", "React"}, TRUE),
      Entry("package.json", "dir", {}, FALSE),
      Entry("package.json", "dir", {}, TRUE),
      Entry("requirements.txt", "file", {"pytest"}, FALSE),
      Entry("requirements.txt", "file", {"flask", "fastapi"}, FALSE),
      Entry("requirements.txt", "dir", {}, FALSE),
      Entry("manage.py", "file", {"django"}, FALSE),
      Entry("manage.py", "file", {"print"}, FALSE),
      Entry("pom.xml", "file", {"spring"}, FALSE),
      Entry("angular.json", "file", {"projects"}, FALSE),
      Entry("next.config.mjs", "file", {"export"}, FALSE),
      Entry("src-tauri", "dir", {}, FALSE),
      Entry("main.py", "file", {"flask"}, FALSE) }

\* sets of entries with pairwise different names
EntrySets(n) ==
    { S \in SUBSET FrameworkEntries :
         /\ Cardinality(S) <= n
         /\ \A a, b \in S : a.name = b.name => a = b }

FrameworkWorld(S) ==
    WithEntries(MergeAll(
        {Dir(<<"home">>), Dir(P)}
        \cup { IF e.kind = "dir" THEN Dir(Append(P, e.name))
               ELSE File(Append(P, e.name), e.text, 2) : e \in S }))

InitFrameworks ==
    /\ \E S \in EntrySets(MaxFiles) :
          /\ fs = FrameworkWorld(S)
          /\ denied = { Append(P, e.name) : e \in { e \in S : e.no_access } }
    /\ directories = <<>>
    /\ max_depth = 0
    /\ pc = "frameworks"
    /\ di = 0
    /\ remaining = {}
    /\ projects = <<>>
    /\ seen_paths = {}
    /\ yielded = <<>>
    /\ stack = <<>>
    /\ target_dir = Path(TRUE, P)
    /\ languages = <<>>
    /\ outcome = <<>>
    /\ db = <<>>
    /\ _projects = <<>>
    /\ earlier = <<>>

DetectFrameworks ==
    /\ pc = "frameworks"
    /\ outcome' = detect_frameworks(target_dir)
    /\ pc' = "frameworks_done"
    /\ UNCHANGED <<fs, directories, max_depth, di, remaining, projects, seen_paths,
                   yielded, stack, target_dir, languages, denied, db, _projects, earlier>>

\* _create_project(path): the record built for the directory, or None
CreateProject ==
    /\ pc = "frameworks"
    /\ \E project \in { _create_project(target_dir, 1) } :
          /\ outcome' = Return(project)
          /\ yielded' = IF project # <<>>
                        THEN <<[root |-> target_dir, root_index |-> 1, project |-> project[1]]>>
                        ELSE <<>>
    /\ pc' = "created"
    /\ UNCHANGED <<fs, directories, max_depth, di, remaining, projects, seen_paths,
                   stack, target_dir, languages, denied, db, _projects, earlier>>

NextFrameworks == DetectFrameworks \/ CreateProject

SpecFrameworks == InitFrameworks /\ [][NextFrameworks]_vars

\* is name n in the sequence s?
InSeq(n, s) == \E i \in 1..Len(s) : s[i] = n

\* the entry of the project directory named n is a readable file of decodable text
ReadableText(n) ==
    /\ is_file(Join(target_dir, n))
    /\ Resolve(Join(target_dir, n)) \notin denied
    /\ fs[Resolve(Join(target_dir, n))].text # Undecodable

\* C11: when detect_frameworks returns, a framework that declares a content
\* check is in the result exactly when the check's target is there and its
\* lowercased text contains one of the keywords, and a framework that declares
\* none is in the result exactly when one of its markers is there.
C11_FrameworkConfirmed ==
    (pc = "frameworks_done" /\ ~outcome.raised) =>
       \A k \in 1..Len(FRAMEWORK_MARKERS) :
          LET m == FRAMEWORK_MARKERS[k] IN
          InSeq(m.name, outcome.value) <=>
             IF m.content_check # <<>>
             THEN /\ ReadableText(m.content_check[1])
                  /\ \E keyword \in m.content_check[2] :
                        keyword_in(keyword, fs[Resolve(Join(target_dir, m.content_check[1]))].text)
             ELSE \E i \in 1..Len(m.files) : exists(Join(target_dir, m.files[i]))

C11_Witness ==
    /\ pc = "frameworks_done"
    /\ ~outcome.raised
    /\ InSeq("React", outcome.value)
    /\ ~InSeq("Electron", outcome.value)
    /\ InSeq("Angular", outcome.value) \/ InSeq("Flask", outcome.value)


\* C12: the languages of a record built by _create_project hold no name
\* twice: first the languages in detect_languages order, then the frameworks
\* in detect_frameworks order, less the names already in the list.
C12_NoDuplicateLanguages ==
    (pc = "created" /\ outcome.value # <<>>) =>
       LET listed == outcome.value[1].languages
           langs == detect_languages(target_dir)
           added == SelectSeq(detect_frameworks(target_dir).value,
                              LAMBDA f : ~InSeq(f, langs))
       IN /\ \A i, j \in 1..Len(listed) : i # j => listed[i] # listed[j]
          /\ listed = langs \o added

C12_Witness ==
    /\ pc = "created"
    /\ outcome.value # <<>>
    /\ detect_languages(target_dir) # <<>>
    /\ Len(outcome.value[1].languages) >= Len(detect_languages(target_dir)) + 2


\* C13: a content check never raises: detect_frameworks returns, and a
\* framework whose content-check target is there but is no readable UTF-8
\* text (no permission, invalid bytes, a directory) is not in the result.
C13_ContentCheckNeverRaises ==
    pc = "frameworks_done" =>
       /\ ~outcome.raised
       /\ \A k \in 1..Len(FRAMEWORK_MARKERS) :
             LET m == FRAMEWORK_MARKERS[k] IN
             (/\ m.content_check # <<>>
              /\ exists(Join(target_dir, m.content_check[1]))
              /\ ~ReadableText(m.content_check[1]))
             => ~InSeq(m.name, outcome.value)


(***************************************************************************)
(* _is_project applied to /home/p, which holds a few entries and may have  *)
(* all its permission bits cleared.                                        *)
(***************************************************************************)
IsProjectNames == {".git", "package.json", "Makefile", "Package.swift", "app.sln",
                   "app.csproj", "random.txt", "main.py", "src"}

IsProjectWorld(names) ==
    WithEntries(MergeAll(
        {Dir(<<"home">>), Dir(P)}
        \cup { IF n \in {".git", "src"} THEN Dir(Append(P, n))
               ELSE File(Append(P, n), {"text"}, 2) : n \in names }))

InitIsProject ==
    /\ \E names \in { t \in SUBSET IsProjectNames : Cardinality(t) <= MaxFiles } :
          fs = IsProjectWorld(names)
    /\ denied \in {{}, {P}}
    /\ directories = <<>>
    /\ max_depth = 0
    /\ pc = "is_project"
    /\ di = 0
    /\ remaining = {}
    /\ projects = <<>>
    /\ seen_paths = {}
    /\ yielded = <<>>
    /\ stack = <<>>
    /\ target_dir = Path(TRUE, P)
    /\ languages = <<>>
    /\ outcome = <<>>
    /\ db = <<>>
    /\ _projects = <<>>
    /\ earlier = <<>>

IsProject ==
    /\ pc = "is_project"
    /\ outcome' = is_project_call(target_dir)
    /\ pc' = "is_project_done"
    /\ UNCHANGED <<fs, directories, max_depth, di, remaining, projects, seen_paths,
                   yielded, stack, target_dir, languages, denied, db, _projects, earlier>>

NextIsProject == IsProject

SpecIsProject == InitIsProject /\ [][NextIsProject]_vars

\* the directory directly holds a marker name or a *.sln / *.csproj entry
HoldsMarker(path) ==
    \E n \in listdir(path) :
       \/ InSeq(n, PROJECT_MARKERS)
       \/ suffix(n) \in {".sln", ".csproj"}

\* C14: _is_project never raises; it is true for a directory that directly
\* holds a marker name or a *.sln / *.csproj entry, false for a directory
\* that holds none, and false for a directory that cannot be listed.
C14_IsProjectByMarkers ==
    pc = "is_project_done" =>
       /\ ~outcome.raised
       /\ Resolve(target_dir) \notin denied => outcome.value = HoldsMarker(target_dir)
       /\ (Resolve(target_dir) \in denied /\ ~HoldsMarker(target_dir)) => outcome.value = FALSE


(***************************************************************************)
(* scan_directory(/home/w) step by step (the test of the root, the         *)
(* listing, each listed entry), with the tree changing under it: another   *)
(* process deletes a directory, replaces the root by a file or clears the  *)
(* permissions of a directory between two steps.                           *)
(***************************************************************************)
MaxChanges == 1     \* changes of the tree during one scan

IsPrefix(p, q) == Len(p) <= Len(q) /\ SubSeq(q, 1, Len(p)) = p

\* the tree without p and everything below it
Without(f, p) ==
    LET keep == { q \in DOMAIN f : ~IsPrefix(p, q) } IN WithEntries([q \in keep |-> f[q]])

\* stat() of the path fails with EACCES: a directory on the way to it has no
\* permissions; pathlib's exists() and is_dir() re-raise it as PermissionError
stat_denied(path) ==
    \E k \in 0..(Len(path.parts) - 1) : SubSeq(path.parts, 1, k) \in denied

RaceChildren == {"py", "emp", "notes.txt"}

InitRace ==
    /\ \E children \in SUBSET RaceChildren : fs = ShallowWorld(children)
    /\ denied = {}
    /\ directories = <<Path(TRUE, W)>>
    /\ max_depth \in {MaxDepth}
    /\ pc = "race_check"
    /\ di = 1
    /\ remaining = {}
    /\ projects = <<>>
    /\ seen_paths = {}
    /\ yielded = <<>>
    /\ stack = <<>>
    /\ target_dir = Path(TRUE, W)
    /\ languages = <<>>
    /\ outcome = <<>>
    /\ db = <<>>
    /\ _projects = <<>>
    /\ earlier = <<>>

\* if not root_path.exists() or not root_path.is_dir(): return
RaceCheckRoot ==
    /\ pc = "race_check"
    /\ IF stat_denied(target_dir)
       THEN outcome' = Raise /\ pc' = "race_done"
       ELSE IF ~root_is_scanned(target_dir)
       THEN outcome' = Return(yielded) /\ pc' = "race_done"
       ELSE outcome' = outcome /\ pc' = "race_list"
    /\ UNCHANGED <<fs, directories, max_depth, di, remaining, projects, seen_paths,
                   yielded, stack, target_dir, languages, denied, db, _projects, earlier>>

\* root_path.iterdir() inside try / except PermissionError: os.listdir raises
\* FileNotFoundError for a missing path and NotADirectoryError for a file
RaceList ==
    /\ pc = "race_list"
    /\ IF stat_denied(target_dir) \/ Resolve(target_dir) \in denied
       THEN outcome' = Return(yielded) /\ pc' = "race_done" /\ remaining' = {}
       ELSE IF ~is_dir(target_dir)
       THEN outcome' = Raise /\ pc' = "race_done" /\ remaining' = {}
       ELSE outcome' = outcome /\ pc' = "race_items" /\ remaining' = iterdir(target_dir)
    /\ UNCHANGED <<fs, directories, max_depth, di, projects, seen_paths,
                   yielded, stack, target_dir, languages, denied, db, _projects, earlier>>

\* one turn of the loop: item.is_dir() raises PermissionError (caught, the
\* loop is left) when the entry cannot be reached
RaceItem ==
    /\ pc = "race_items"
    /\ \E item \in remaining :
          IF stat_denied(item)
          THEN /\ outcome' = Return(yielded)
               /\ pc' = "race_done"
               /\ remaining' = {}
               /\ UNCHANGED yielded
          ELSE \E project \in { IF shallow_candidate(item)
                                THEN _create_project(item, Len(yielded) + 1)
                                ELSE <<>> } :
                  /\ yielded' = IF project # <<>>
                                THEN Append(yielded, [root |-> target_dir, root_index |-> 1,
                                                      project |-> project[1]])
                                ELSE yielded
                  /\ remaining' = remaining \ {item}
                  /\ UNCHANGED <<outcome, pc>>
    /\ UNCHANGED <<fs, directories, max_depth, di, projects, seen_paths,
                   stack, target_dir, languages, denied, db, _projects, earlier>>

RaceEnd ==
    /\ pc = "race_items"
    /\ remaining = {}
    /\ outcome' = Return(yielded)
    /\ pc' = "race_done"
    /\ UNCHANGED <<fs, directories, max_depth, di, remaining, projects, seen_paths,
                   yielded, stack, target_dir, languages, denied, db, _projects, earlier>>

Running == pc \in {"race_check", "race_list", "race_items"}

\* another process removes the root or one of its child directories
EnvDelete ==
    /\ Running
    /\ Len(earlier) < MaxChanges
    /\ \E p \in { q \in DOMAIN fs : IsPrefix(W, q) /\ Len(q) <= Len(W) + 1 /\ fs[q].kind = "dir" } :
          /\ fs' = Without(fs, p)
          /\ earlier' = Append(earlier, <<"delete", p>>)
    /\ UNCHANGED <<directories, max_depth, pc, di, remaining, projects, seen_paths,
                   yielded, stack, target_dir, languages, outcome, denied, db, _projects>>

\* another process replaces the root directory by a regular file
EnvReplaceByFile ==
    /\ Running
    /\ Len(earlier) < MaxChanges
    /\ W \in DOMAIN fs
    /\ fs[W].kind = "dir"
    /\ fs' = WithEntries(File(W, {"text"}, 5) @@ Without(fs, W))
    /\ earlier' = Append(earlier, <<"file", W>>)
    /\ UNCHANGED <<directories, max_depth, pc, di, remaining, projects, seen_paths,
                   yielded, stack, target_dir, languages, outcome, denied, db, _projects>>

\* another process clears the permissions of the root or of its parent
EnvDeny ==
    /\ Running
    /\ Len(earlier) < MaxChanges
    /\ \E p \in {W, <<"home">>} :
          /\ p \in DOMAIN fs
          /\ denied' = denied \cup {p}
          /\ earlier' = Append(earlier, <<"deny", p>>)
    /\ UNCHANGED <<fs, directories, max_depth, pc, di, remaining, projects, seen_paths,
                   yielded, stack, target_dir, languages, outcome, db, _projects>>

NextRace ==
    \/ RaceCheckRoot \/ RaceList \/ RaceItem \/ RaceEnd
    \/ EnvDelete \/ EnvReplaceByFile \/ EnvDeny

SpecRace == InitRace /\ [][NextRace]_vars

\* C15: whatever happens to the tree while it is scanned, the scan returns.
C15_ScanNeverRaises ==
    pc = "race_done" => ~outcome.raised


(***************************************************************************)
(* scan_directories called twice on one unchanged tree.  The order in      *)
(* which the system lists a directory is fixed beforehand (earlier.order)  *)
(* and is the same for both calls; earlier.runs keeps what the first call  *)
(* returned.                                                               *)
(***************************************************************************)
TwiceChildren == {"py", "node", "emp", "Lib"}

ListingOrders(S) ==
    { s \in [1..Cardinality(S) -> S] : \A i, j \in 1..Cardinality(S) : i # j => s[i] # s[j] }

PlaceIn(s, n) == CHOOSE i \in 1..Len(s) : s[i] = n

InitTwice ==
    /\ \E children \in { c \in SUBSET TwiceChildren : Cardinality(c) <= MaxChildren } :
          /\ fs = ShallowWorld(children)
          /\ \E order \in ListingOrders(children) : earlier = [order |-> order, runs |-> <<>>]
    /\ directories \in SeqsUpTo({Path(TRUE, W), Path(FALSE, <<"w">>), Path(TRUE, <<"home", "none">>)},
                                MaxRoots)
    /\ max_depth = MaxDepth
    /\ pc = "for_directory"
    /\ di = 0
    /\ remaining = {}
    /\ projects = <<>>
    /\ seen_paths = {}
    /\ yielded = <<>>
    /\ stack = <<>>
    /\ target_dir = Path(TRUE, <<>>)
    /\ languages = <<>>
    /\ outcome = <<>>
    /\ denied = {}
    /\ db = <<>>
    /\ _projects = <<>>

\* `remaining` carries the entries as an unordered set, so a turn hands out
\* an arbitrary one; scandir hands out the first in listing order
FirstListed(before, after) ==
    \A picked \in before \ after : \A other \in before :
       PlaceIn(earlier.order, name(picked)) <= PlaceIn(earlier.order, name(other))

\* one turn of the loop over the listing, entries in listing order
NextListedItem == NextItem /\ FirstListed(remaining, remaining')

\* variant: a second call that starts with the dedup set of the first
ScanAgainWithSeenPaths ==
    /\ pc = "done"
    /\ earlier.runs = <<>>
    /\ earlier' = [earlier EXCEPT !.runs = <<projects>>]
    /\ projects' = <<>>
    /\ yielded' = <<>>
    /\ di' = 0
    /\ pc' = "for_directory"
    /\ UNCHANGED <<fs, directories, max_depth, remaining, stack, target_dir, languages,
                   seen_paths, outcome, denied, db, _projects>>

\* the first call has returned; the second call starts with a new scanner,
\* a new list and a new dedup set
ScanAgain ==
    /\ pc = "done"
    /\ earlier.runs = <<>>
    /\ earlier' = [earlier EXCEPT !.runs = <<projects>>]
    /\ projects' = <<>>
    /\ seen_paths' = {}
    /\ yielded' = <<>>
    /\ di' = 0
    /\ pc' = "for_directory"
    /\ UNCHANGED <<fs, directories, max_depth, remaining, stack, target_dir, languages,
                   outcome, denied, db, _projects>>

NextTwice == ScanDirectory \/ NextListedItem \/ EndIterdir \/ ReturnProjects \/ ScanAgain

SpecTwice == InitTwice /\ [][NextTwice]_vars

\* the fields of a Project record
Fields(project) ==
    [name |-> project.name, path |-> project.path, languages |-> project.languages,
     last_modified |-> project.last_modified]

\* C16: a second scan of the unchanged tree, listed in the same order,
\* returns the records of the first: same paths in the same order, same
\* names, languages and last-modified values.
C16_SecondScanIdentical ==
    (pc = "done" /\ earlier.runs # <<>>) =>
       /\ Len(projects) = Len(earlier.runs[1])
       /\ \A i \in 1..Len(projects) : Fields(projects[i]) = Fields(earlier.runs[1][i])

C16_Witness ==
    /\ pc = "done"
    /\ earlier.runs # <<>>
    /\ Len(projects) >= 2
    /\ Len(directories) >= 2
    /\ \E i \in 1..Len(projects) : projects[i].languages # <<>>


(***************************************************************************)
(* models/project.py and database.py.  A Project object is a record of     *)
(* its attributes; the dataclass declares eight fields and no other.  A    *)
(* row of table projects is keyed by the text of the path.                 *)
(***************************************************************************)
ProjectFields == {"name", "path", "languages", "status", "notes", "favorite",
                  "last_modified", "id"}

None == <<>>

\* Project(**kwargs): a keyword that is no field of the dataclass is a
\* TypeError; fields not given take their defaults
Project(kwargs) ==
    IF ~(DOMAIN kwargs \subseteq ProjectFields) THEN Raise
    ELSE Return([f \in ProjectFields |->
                    IF f \in DOMAIN kwargs THEN kwargs[f]
                    ELSE CASE f = "languages" -> <<>>
                           [] f = "status" -> "active"
                           [] f = "notes" -> ""
                           [] f = "favorite" -> FALSE
                           [] OTHER -> None])

\* str(path) and Path(text): the text of a path, and the path of a text
str(path) == <<IF path.abs THEN "/" ELSE "", path.parts>>
PathOf(text) == Path(text[1] = "/", text[2])

\* the result of a call on the store: raised or returned, and the rows after it
Stored(raised, value, rows) == [raised |-> raised, value |-> value, db |-> rows]

NextId(rows) == IF DOMAIN rows = {} THEN 1 ELSE SetMax({ rows[k].id : k \in DOMAIN rows }) + 1

\* the parameters of the INSERT / UPDATE statement; project.commands is read
\* while the tuple is built, before the statement runs
RowOf(project, id) ==
    [id |-> id, name |-> project.name, languages |-> project.languages,
     status |-> project.status, notes |-> project.notes, favorite |-> project.favorite,
     last_modified |-> project.last_modified, commands |-> project.commands]

\* INSERT OR REPLACE INTO projects ...
add_project(rows, project) ==
    IF "commands" \notin DOMAIN project THEN Stored(TRUE, None, rows)
    ELSE LET key == str(project.path)
             kept == [k \in DOMAIN rows \ {key} |-> rows[k]]
         IN Stored(FALSE, NextId(kept), (key :> RowOf(project, NextId(kept))) @@ kept)

\* UPDATE projects SET ... WHERE path = ?
update_project(rows, project) ==
    IF "commands" \notin DOMAIN project THEN Stored(TRUE, None, rows)
    ELSE LET key == str(project.path) IN
         IF key \in DOMAIN rows
         THEN Stored(FALSE, None, [rows EXCEPT ![key] = RowOf(project, rows[key].id)])
         ELSE Stored(FALSE, None, rows)

\* _row_to_project: Project(id=..., ..., commands=commands)
_row_to_project(key, row) ==
    Project([id |-> row.id, name |-> row.name, path |-> PathOf(key),
             languages |-> row.languages, status |-> row.status, notes |-> row.notes,
             favorite |-> row.favorite, last_modified |-> row.last_modified,
             commands |-> row.commands])

\* SELECT * FROM projects WHERE path = ?
get_project_by_path(rows, path) ==
    IF str(path) \in DOMAIN rows
    THEN LET made == _row_to_project(str(path), rows[str(path)]) IN
         Stored(made.raised, made.value, rows)
    ELSE Stored(FALSE, None, rows)

\* DELETE FROM projects WHERE path = ?
delete_project(rows, path) ==
    Stored(FALSE, None, [k \in DOMAIN rows \ {str(path)} |-> rows[k]])


(***************************************************************************)
(* The store driven by its callers: add, update, look up and delete        *)
(* projects.  The database file may hold rows from before (the tables are  *)
(* created only if they do not exist).  `earlier` keeps, per path, what    *)
(* the last add or update handed in, or None.                              *)
(***************************************************************************)
StorePaths == { Path(TRUE, <<"test", "project">>), Path(TRUE, <<"test">>) }

\* the Project objects callers build: Project(name=..., path=..., ...)
CallerProjects ==
    { Project([name |-> n, path |-> p, languages |-> l, status |-> st, notes |-> nt]).value :
         n \in {"TestProject", "Test"}, p \in StorePaths, l \in {<<>>, <<"Python">>},
         st \in {"active", "archived"}, nt \in {"", "Updated notes"} }

PriorRow(id, n) ==
    [id |-> id, name |-> n, languages |-> <<"Python">>, status |-> "hold", notes |-> "kept",
     favorite |-> TRUE, last_modified |-> None, commands |-> <<>>]

PriorDatabases ==
    { <<>>,
      str(Path(TRUE, <<"test">>)) :> PriorRow(1, "Test"),
      (str(Path(TRUE, <<"test">>)) :> PriorRow(1, "Test"))
         @@ (str(Path(TRUE, <<"test", "project">>)) :> PriorRow(2, "Mine")) }

Called(op, path, result) ==
    [op |-> op, path |-> path, raised |-> result.raised, value |-> result.value]

InitStore ==
    /\ db \in PriorDatabases
    /\ earlier = [k \in { str(p) : p \in StorePaths } |->
                     IF k \in DOMAIN db THEN <<db[k]>> ELSE None]
    /\ outcome = <<>>
    /\ pc = "store"
    /\ fs = WithEntries(Dir(<<>>))
    /\ denied = {}
    /\ directories = <<>>
    /\ max_depth = 0
    /\ di = 0
    /\ remaining = {}
    /\ projects = <<>>
    /\ seen_paths = {}
    /\ yielded = <<>>
    /\ stack = <<>>
    /\ target_dir = Path(TRUE, <<>>)
    /\ languages = <<>>
    /\ _projects = <<>>

StoreUnchanged ==
    UNCHANGED <<fs, directories, max_depth, pc, di, remaining, projects, seen_paths,
                yielded, stack, target_dir, languages, denied, _projects>>

AddProject ==
    /\ pc = "store"
    /\ \E project \in CallerProjects :
          \E result \in { add_project(db, project) } :
             /\ db' = result.db
             /\ outcome' = Called("add", project.path, result)
             /\ earlier' = [earlier EXCEPT ![str(project.path)] = <<project>>]
    /\ StoreUnchanged

UpdateProject ==
    /\ pc = "store"
    /\ \E project \in CallerProjects :
          \E result \in { update_project(db, project) } :
             /\ db' = result.db
             /\ outcome' = Called("update", project.path, result)
             /\ earlier' = IF earlier[str(project.path)] # None
                           THEN [earlier EXCEPT ![str(project.path)] = <<project>>]
                           ELSE earlier
    /\ StoreUnchanged

GetProjectByPath ==
    /\ pc = "store"
    /\ \E path \in StorePaths :
          \E result \in { get_project_by_path(db, path) } :
             /\ db' = result.db
             /\ outcome' = Called("get", path, result)
    /\ UNCHANGED earlier
    /\ StoreUnchanged

DeleteProject ==
    /\ pc = "store"
    /\ \E path \in StorePaths :
          \E result \in { delete_project(db, path) } :
             /\ db' = result.db
             /\ outcome' = Called("delete", path, result)
             /\ earlier' = [earlier EXCEPT ![str(path)] = None]
    /\ StoreUnchanged

NextStore == AddProject \/ UpdateProject \/ GetProjectByPath \/ DeleteProject

SpecStore == InitStore /\ [][NextStore]_vars

\* C19: the store is a map keyed by path: no call raises, and a lookup
\* returns a project with the name, languages, status and notes of the last
\* add or update for the path, or None when there is none or the path was
\* deleted since.
C19_StoreIsMapByPath ==
    outcome # <<>> =>
       /\ ~outcome.raised
       /\ outcome.op = "get" =>
             LET last == earlier[str(outcome.path)] IN
             IF last = None THEN outcome.value = None
             ELSE /\ outcome.value # None
                  /\ outcome.value.name = last[1].name
                  /\ outcome.value.languages = last[1].languages
                  /\ outcome.value.status = last[1].status
                  /\ outcome.value.notes = last[1].notes


(***************************************************************************)
(* app.py: load_projects and refresh_projects over the store, the scanner  *)
(* and the tree.  scan_directories is taken here as one call, the entries  *)
(* of a root coming in the listing order `order`.                          *)
(***************************************************************************)
\* the records scan_directory yields for one root, in listing order
RECURSIVE scan_directory_listed(_, _, _)
scan_directory_listed(root_path, order, serial) ==
    IF order = <<>> \/ ~root_is_scanned(root_path) THEN <<>>
    ELSE LET item == Join(root_path, Head(order))
             project == IF Head(order) \in listdir(root_path) /\ shallow_candidate(item)
                        THEN _create_project(item, serial)
                        ELSE None
         IN project \o scan_directory_listed(root_path, Tail(order), serial + Len(project))

RECURSIVE keep_all_first(_, _, _)
keep_all_first(projects_, seen, found) ==
    IF found = <<>> THEN [projects |-> projects_, seen_paths |-> seen]
    ELSE LET kept == keep_first(projects_, seen, Head(found)) IN
         keep_all_first(kept.projects, kept.seen_paths, Tail(found))

RECURSIVE scan_directories_listed(_, _, _, _)
scan_directories_listed(dirs, order, projects_, seen) ==
    IF dirs = <<>> THEN projects_
    ELSE LET kept == keep_all_first(projects_, seen,
                                    scan_directory_listed(Head(dirs), order, Len(projects_) + 1))
         IN scan_directories_listed(Tail(dirs), order, kept.projects, kept.seen_paths)

\* the Project object _create_project builds: Project(name=, path=, languages=, last_modified=)
AsProject(record) ==
    Project([name |-> record.name, path |-> record.path, languages |-> record.languages,
             last_modified |-> record.last_modified]).value

\* get_all_projects: every row goes through _row_to_project (the ORDER BY
\* name of the statement plays no part in what follows)
RECURSIVE rows_to_projects(_, _)
rows_to_projects(rows, keys) ==
    IF keys = {} THEN Return(<<>>)
    ELSE LET k == CHOOSE x \in keys : TRUE
             made == _row_to_project(k, rows[k])
             rest == rows_to_projects(rows, keys \ {k})
         IN IF made.raised \/ rest.raised THEN Raise
            ELSE Return(<<made.value>> \o rest.value)

get_all_projects(rows) == rows_to_projects(rows, DOMAIN rows)

\* refresh_projects, lines 72-85: one turn of the loop over `discovered`
reconcile_one(rows, project) ==
    LET existing == get_project_by_path(rows, project.path) IN
    IF existing.raised THEN Stored(TRUE, None, rows)
    ELSE IF existing.value # None
    THEN update_project(rows,
             [project EXCEPT !.id = existing.value.id,
                             !.status = existing.value.status,
                             !.notes = existing.value.notes,
                             !.favorite = existing.value.favorite,
                             !.name = IF existing.value.name # name(existing.value.path)
                                      THEN existing.value.name ELSE @])
    ELSE add_project(rows, project)

RECURSIVE reconcile(_, _)
reconcile(rows, discovered) ==
    IF discovered = <<>> THEN Stored(FALSE, None, rows)
    ELSE LET one == reconcile_one(rows, AsProject(Head(discovered))) IN
         IF one.raised THEN one ELSE reconcile(one.db, Tail(discovered))

\* refresh_projects, lines 88-90: for project in self._projects
RECURSIVE delete_missing(_, _)
delete_missing(rows, loaded) ==
    IF loaded = <<>> THEN rows
    ELSE delete_missing(IF ~exists(Head(loaded).path)
                        THEN delete_project(rows, Head(loaded).path).db
                        ELSE rows,
                        Tail(loaded))


(***************************************************************************)
(* The application over a store, a tree and its settings: load_projects    *)
(* and refresh_projects, each as one call, with project directories being  *)
(* removed from disk between calls.  `directories` is what                 *)
(* get_scan_directories returns; `earlier` keeps what the last refresh     *)
(* started from and what its scan found.                                   *)
(***************************************************************************)
RefreshChildren == {"py", "Lib"}

\* a row with data the user entered: a name of their own, status, notes,
\* favorite and commands
UserRow(id) ==
    [id |-> id, name |-> "Mine", languages |-> <<"Go">>, status |-> "archived",
     notes |-> "kept", favorite |-> TRUE, last_modified |-> None, commands |-> <<"make">>]

RefreshDatabases ==
    LET py == str(Path(TRUE, W \o <<"py">>))
        gone == str(Path(TRUE, W \o <<"gone">>))
    IN { <<>>, py :> UserRow(1), gone :> UserRow(1), (py :> UserRow(1)) @@ (gone :> UserRow(2)) }

RefreshSettings == { <<>>, <<Path(TRUE, W)>>, <<Path(TRUE, <<"home", "none">>)>> }

InitRefresh ==
    /\ \E children \in SUBSET RefreshChildren : fs = ShallowWorld(children)
    /\ db \in RefreshDatabases
    /\ directories \in RefreshSettings
    /\ _projects = <<>>
    /\ outcome = <<>>
    /\ earlier = <<>>
    /\ pc = "app"
    /\ denied = {}
    /\ max_depth = 0
    /\ di = 0
    /\ remaining = {}
    /\ projects = <<>>
    /\ seen_paths = {}
    /\ yielded = <<>>
    /\ stack = <<>>
    /\ target_dir = <<>>
    /\ languages = <<>>

RefreshUnchanged ==
    UNCHANGED <<directories, max_depth, pc, di, remaining, projects, seen_paths, yielded,
                stack, target_dir, languages, denied>>

\* load_projects: self._projects = self.db.get_all_projects()
LoadProjects ==
    /\ pc = "app"
    /\ \E loaded \in {get_all_projects(db)} :
          /\ _projects' = IF loaded.raised THEN _projects ELSE loaded.value
          /\ outcome' = Called("load_projects", None, loaded)
    /\ UNCHANGED <<fs, db, earlier>>
    /\ RefreshUnchanged

\* refresh_projects, the whole call
RefreshProjects ==
    /\ pc = "app"
    /\ IF directories = <<>>
       THEN /\ outcome' = Called("refresh_projects", None, Return(None))
            /\ UNCHANGED <<db, _projects, earlier>>
       ELSE \E order \in ListingOrders(RefreshChildren) :
            \E discovered \in {scan_directories_listed(directories, order, <<>>, {})} :
            \E updated \in {reconcile(db, discovered)} :
               /\ earlier' = [db |-> db, discovered |-> discovered]
               /\ IF updated.raised
                  THEN /\ db' = updated.db
                       /\ outcome' = Called("refresh_projects", None, Raise)
                       /\ UNCHANGED _projects
                  ELSE \E cleaned \in {delete_missing(updated.db, _projects)} :
                       \E loaded \in {get_all_projects(cleaned)} :
                          /\ db' = cleaned
                          /\ _projects' = IF loaded.raised THEN _projects ELSE loaded.value
                          /\ outcome' = Called("refresh_projects", None,
                                               IF loaded.raised THEN Raise ELSE Return(None))
    /\ UNCHANGED fs
    /\ RefreshUnchanged

\* a project directory is removed from disk
RemoveDirectory ==
    /\ pc = "app"
    /\ \E n \in RefreshChildren :
          /\ exists(Path(TRUE, W \o <<n>>))
          /\ fs' = Without(fs, W \o <<n>>)
    /\ outcome' = <<>>
    /\ UNCHANGED <<db, _projects, earlier>>
    /\ RefreshUnchanged

NextRefresh == LoadProjects \/ RefreshProjects \/ RemoveDirectory

SpecRefresh == InitRefresh /\ [][NextRefresh]_vars

Refreshed == outcome # <<>> /\ outcome.op = "refresh_projects"

\* C17: when refresh_projects has run over a path the store already held,
\* the call has returned, the row of that path still carries the user's
\* favorite, status, notes, name and commands, and its languages are the
\* ones the scan has just detected.
C17_RefreshKeepsUserFields ==
    Refreshed /\ earlier # <<>> =>
        \A i \in 1..Len(earlier.discovered) :
           LET found == earlier.discovered[i]
               key == str(found.path)
           IN key \in DOMAIN earlier.db =>
                 /\ ~outcome.raised
                 /\ key \in DOMAIN db
                 /\ db[key].favorite = earlier.db[key].favorite
                 /\ db[key].status = earlier.db[key].status
                 /\ db[key].notes = earlier.db[key].notes
                 /\ db[key].name = earlier.db[key].name
                 /\ db[key].commands = earlier.db[key].commands
                 /\ db[key].languages = found.languages

\* C18: when refresh_projects has returned, every path the store holds
\* exists on disk.
C18_NoRowForMissingPath ==
    Refreshed /\ ~outcome.raised => \A key \in DOMAIN db : exists(PathOf(key))


(***************************************************************************)
(* scan_directories over configured roots some of which are missing or are *)
(* files: /home/w and /home/w/a are directories (when present),            *)
(* /home/none is missing, /home/w/notes.txt is a file.                     *)
(***************************************************************************)
RootChildren == {"py", "a", "notes.txt"}

RootChoices ==
    { Path(TRUE, W), Path(TRUE, W \o <<"a">>),
      Path(TRUE, <<"home", "none">>), Path(TRUE, W \o <<"notes.txt">>) }

InitRoots ==
    /\ \E children \in SUBSET RootChildren : fs = ShallowWorld(children)
    /\ directories \in SeqsUpTo(RootChoices, MaxRoots)
    /\ max_depth = 0
    /\ pc = "for_directory"
    /\ di = 0
    /\ remaining = {}
    /\ projects = <<>>
    /\ seen_paths = {}
    /\ yielded = <<>>
    /\ stack = <<>>
    /\ target_dir = Path(TRUE, <<>>)
    /\ languages = <<>>
    /\ ExtIdle

SpecRoots == InitRoots /\ [][Next]_vars

\* the records a root accounts for: its child directories the skip rule lets through
ChildrenOf(root_path) ==
    { item \in iterdir(root_path) : shallow_candidate(item) /\ _create_project(item, 1) # <<>> }

BadRoot(k) == ~exists(directories[k]) \/ ~is_dir(directories[k])

\* C20: when scan_directories has returned, no record lies under a root that
\* is missing or is not a directory, and the records are exactly the children
\* of the other roots, whether those come before or after such a root.
C20_BadRootSkippedOthersScanned ==
    pc = "done" =>
        /\ \A k \in 1..Len(directories) :
              BadRoot(k) =>
                 \A i \in 1..Len(yielded) : yielded[i].root_index # k
        /\ ProjectPaths =
              UNION { ChildrenOf(directories[k]) :
                         k \in { j \in 1..Len(directories) : ~BadRoot(j) } }

\* a missing or non-directory root comes first and a root after it has
\* yielded a record
C20_Witness ==
    /\ pc = "done"
    /\ Len(directories) >= 2
    /\ BadRoot(1)
    /\ \E i \in 1..Len(yielded) : yielded[i].root_index > 1
    /\ projects # <<>>


(***************************************************************************)
(* detect_languages over directories that hold first-listed marker files   *)
(* of the language table and nothing else.                                 *)
(***************************************************************************)
\* the first entry of 'files' of every language that has marker files
FirstMarkers ==
    { LANGUAGE_MARKERS[k].files[1] :
         k \in { j \in 1..Len(LANGUAGE_MARKERS) : LANGUAGE_MARKERS[j].files # <<>> } }

InitMarkers ==
    /\ \E top \in { t \in SUBSET FirstMarkers : Cardinality(t) <= MaxFiles } :
          fs = DetectWorld(top, {})
    /\ directories = <<>>
    /\ max_depth = 0
    /\ pc = "detect"
    /\ di = 0
    /\ remaining = {}
    /\ projects = <<>>
    /\ seen_paths = {}
    /\ yielded = <<>>
    /\ stack = <<>>
    /\ target_dir = Path(TRUE, P)
    /\ languages = <<>>
    /\ ExtIdle

SpecMarkers == InitMarkers /\ [][NextDetect]_vars

\* C21: for every language of the table that has marker files, a directory
\* holding only its first-listed marker file gives a result that contains the
\* language, in which no language has a strictly smaller priority number, and
\* whose only entry, when there is just one, is that language.
C21_PrimaryMarkerYieldsLanguage ==
    pc = "detected" =>
        \A k \in 1..Len(LANGUAGE_MARKERS) :
            (/\ LANGUAGE_MARKERS[k].files # <<>>
             /\ listdir(target_dir) = {LANGUAGE_MARKERS[k].files[1]})
            => /\ InSeq(LANGUAGE_MARKERS[k].name, languages)
               /\ \A i \in 1..Len(languages) :
                     PriorityOf(languages[i]) >= LANGUAGE_MARKERS[k].priority
               /\ Len(languages) = 1 => languages[1] = LANGUAGE_MARKERS[k].name

\* build.gradle.kts alone: Kotlin is detected next to Java, of equal priority
C21_Witness ==
    /\ pc = "detected"
    /\ listdir(target_dir) = {"build.gradle.kts"}
    /\ languages = <<"Java", "Kotlin">>


(***************************************************************************)
(* scan_directory and _scan_recursive as generators in the hands of a      *)
(* caller.  The body of a generator runs only inside a next() call of the  *)
(* caller and is suspended at `yield`; `outcome` counts the next() calls   *)
(* made and tells whether the caller has stopped consuming.                *)
(***************************************************************************)
LazyChildren == {"py", "emp", "notes.txt"}

InitLazy ==
    /\ \/ /\ \E children \in SUBSET LazyChildren : fs = ShallowWorld(children)
          /\ directories = <<Path(TRUE, W)>>
          /\ pc = "for_directory"
          /\ target_dir = Path(TRUE, <<>>)
          /\ stack = <<>>
       \/ /\ \E marked \in SUBSET (1..2) :
             \E beside \in {"none", "plain", "marked"} :
                fs = DeepWorld(2, marked, 0, beside)
          /\ directories = <<>>
          /\ pc = "recursive"
          /\ target_dir = Path(TRUE, R)
          /\ stack = <<Frame(Path(TRUE, R), 0)>>
    /\ max_depth = MaxDepth
    /\ di = 0
    /\ remaining = {}
    /\ projects = <<>>
    /\ seen_paths = {}
    /\ yielded = <<>>
    /\ languages = <<>>
    /\ outcome = [requested |-> 0, stopped |-> FALSE]
    /\ denied = {}
    /\ db = <<>>
    /\ _projects = <<>>
    /\ earlier = <<>>

\* variant: a producer that runs on its own, whether or not a record is asked for
inside_next_always == TRUE

\* the generator is inside a next() call: a record has been asked for and
\* not yet been yielded
inside_next == ~outcome.stopped /\ Len(yielded) < outcome.requested

Exhausted == pc \in {"done", "rec_done"}

\* the caller asks for the next record: next(generator)
RequestNext ==
    /\ ~outcome.stopped
    /\ ~Exhausted
    /\ Len(yielded) = outcome.requested
    /\ outcome' = [outcome EXCEPT !.requested = @ + 1]
    /\ UNCHANGED <<fs, directories, max_depth, pc, di, remaining, projects, seen_paths,
                   yielded, stack, target_dir, languages, denied, db, _projects, earlier>>

\* the caller stops consuming: it leaves its loop and drops the generator
StopConsuming ==
    /\ ~outcome.stopped
    /\ Len(yielded) = outcome.requested
    /\ outcome' = [outcome EXCEPT !.stopped = TRUE]
    /\ UNCHANGED <<fs, directories, max_depth, pc, di, remaining, projects, seen_paths,
                   yielded, stack, target_dir, languages, denied, db, _projects, earlier>>

LazyScanDirectory == inside_next /\ ScanDirectory
LazyNextItem == inside_next /\ NextItem
LazyEndIterdir == inside_next /\ EndIterdir
LazyReturn == inside_next /\ ReturnProjects
LazyRecEnter == inside_next /\ RecEnter
LazyRecNextItem == inside_next /\ RecNextItem
LazyRecExit == inside_next /\ RecExit
LazyRecDone == inside_next /\ RecDone

NextLazy ==
    \/ RequestNext
    \/ StopConsuming
    \/ LazyScanDirectory
    \/ LazyNextItem
    \/ LazyEndIterdir
    \/ LazyReturn
    \/ LazyRecEnter
    \/ LazyRecNextItem
    \/ LazyRecExit
    \/ LazyRecDone

SpecLazy == InitLazy /\ [][NextLazy]_vars

\* the position of the generator: what it has listed, classified and yielded
generator_state == <<pc, di, remaining, yielded, stack>>

marker_exists(d, markers) ==
    \E i \in 1..Len(markers.files) : exists_at(d, <<markers.files[i]>>)

\* if extensions and language not in detected: the search is called
extension_search_called(d, markers) ==
    markers.extensions # {} /\ ~marker_exists(d, markers)

DetectLanguagesTraced ==
    /\ pc = "detect"
    /\ languages' = detect_languages(target_dir)
    /\ \E d \in {Resolve(target_dir)} :
       \E called \in {SelectSeq(LANGUAGE_MARKERS, LAMBDA m : extension_search_called(d, m))} :
          earlier' = [i \in 1..Len(called) |-> called[i].name]
    /\ pc' = "detected"
    /\ UNCHANGED <<fs, directories, max_depth, di, remaining, projects, seen_paths,
                   yielded, stack, target_dir, outcome, denied, db, _projects>>

NextSearch == DetectLanguagesTraced

SpecSearch == InitDetect /\ [][NextSearch]_vars

\* a file whose suffix is one of the extensions lies where the search looks
SearchFinds(extensions) ==
    _has_files_with_extensions(Resolve(target_dir), extensions, search_max_depth)

\* C23: a language is in the result exactly when one of its marker files
\* exists directly under the directory, or none of them exists and the
\* extension search finds a file with one of its extensions; the extension
\* search is not run for a language that a marker has detected.
C23_MarkerElseExtension ==
    pc = "detected" =>
        \A k \in 1..Len(LANGUAGE_MARKERS) :
            LET markers == LANGUAGE_MARKERS[k]
                has_marker == \E i \in 1..Len(markers.files) :
                                 exists(Join(target_dir, markers.files[i]))
            IN /\ InSeq(markers.name, languages) <=>
                     \/ has_marker
                     \/ ~has_marker /\ SearchFinds(markers.extensions)
               /\ has_marker => ~InSeq(markers.name, earlier)

\* Rust is detected through Cargo.toml while main.rs lies beside it, and the
\* extension search has not been run for Rust but has been for other languages
C23_Witness ==
    /\ pc = "detected"
    /\ {"Cargo.toml", "main.rs"} \subseteq listdir(target_dir)
    /\ InSeq("Rust", languages)
    /\ ~InSeq("Rust", earlier)
    /\ InSeq("Python", earlier)


(***************************************************************************)
(* detect_frameworks as the loop it is: `detected` grows by append, the    *)
(* marker loop breaks at the first marker that confirms the framework, and *)
(* the content-only rule runs when the framework is not in `detected`.     *)
(***************************************************************************)
\* variant: a marker loop that does not break after appending
RECURSIVE marker_loop_without_break(_, _, _, _)
marker_loop_without_break(d, markers, detected, i) ==
    IF i > Len(markers.files) THEN Return(detected)
    ELSE IF ~exists_at(d, <<markers.files[i]>>)
    THEN marker_loop_without_break(d, markers, detected, i + 1)
    ELSE IF markers.content_check = <<>>
    THEN marker_loop_without_break(d, markers, Append(detected, markers.name), i + 1)
    ELSE LET found == _file_contains_keywords(d, markers.content_check[1],
                                              markers.content_check[2])
         IN IF found.raised THEN Raise
            ELSE marker_loop_without_break(
                     d, markers,
                     IF found.value THEN Append(detected, markers.name) ELSE detected,
                     i + 1)

\* for marker_file in markers.get('files', []), from the i-th file on
RECURSIVE marker_loop(_, _, _, _)
marker_loop(d, markers, detected, i) ==
    IF i > Len(markers.files) THEN Return(detected)
    ELSE IF ~exists_at(d, <<markers.files[i]>>)
    THEN marker_loop(d, markers, detected, i + 1)
    ELSE IF markers.content_check = <<>>
    THEN Return(Append(detected, markers.name))
    ELSE LET found == _file_contains_keywords(d, markers.content_check[1],
                                              markers.content_check[2])
         IN IF found.raised THEN Raise
            ELSE IF found.value THEN Return(Append(detected, markers.name))
            ELSE marker_loop(d, markers, detected, i + 1)

\* if framework not in detected and markers.get('content_check'): ...
content_rule(d, markers, detected) ==
    IF InSeq(markers.name, detected) \/ markers.content_check = <<>> THEN Return(detected)
    ELSE IF ~exists_at(d, <<markers.content_check[1]>>) THEN Return(detected)
    ELSE LET found == _file_contains_keywords(d, markers.content_check[1],
                                              markers.content_check[2])
         IN IF found.raised THEN Raise
            ELSE IF found.value THEN Return(Append(detected, markers.name))
            ELSE Return(detected)

\* the 'extensions' key of the framework table: only '.NET' has one
framework_extensions(n) == IF n = ".NET" THEN {".csproj", ".sln"} ELSE {}

\* variant: a loop that also reads the 'extensions' key and confirms a framework
\* by a file of the directory with one of these suffixes
RECURSIVE frameworks_loop_reading_extensions(_, _, _)
frameworks_loop_reading_extensions(d, k, detected) ==
    IF k > Len(FRAMEWORK_MARKERS) THEN Return(detected)
    ELSE LET by_marker == marker_loop(d, FRAMEWORK_MARKERS[k], detected, 1) IN
         IF by_marker.raised THEN Raise
         ELSE LET by_content == content_rule(d, FRAMEWORK_MARKERS[k], by_marker.value) IN
              IF by_content.raised THEN Raise
              ELSE frameworks_loop_reading_extensions(
                       d, k + 1,
                       IF /\ ~InSeq(FRAMEWORK_MARKERS[k].name, by_content.value)
                          /\ \E n \in fs[d].entries :
                                suffix(n) \in framework_extensions(FRAMEWORK_MARKERS[k].name)
                       THEN Append(by_content.value, FRAMEWORK_MARKERS[k].name)
                       ELSE by_content.value)

\* for framework, markers in FRAMEWORK_MARKERS.items(), from the k-th entry on
RECURSIVE frameworks_loop(_, _, _)
frameworks_loop(d, k, detected) ==
    IF k > Len(FRAMEWORK_MARKERS) THEN Return(detected)
    ELSE LET by_marker == marker_loop(d, FRAMEWORK_MARKERS[k], detected, 1) IN
         IF by_marker.raised THEN Raise
         ELSE LET by_content == content_rule(d, FRAMEWORK_MARKERS[k], by_marker.value) IN
              IF by_content.raised THEN Raise
              ELSE frameworks_loop(d, k + 1, by_content.value)

detect_frameworks_loop(project_path) ==
    LET d == Resolve(project_path) IN
    IF d = Missing THEN Return(<<>>)
    ELSE IF d \in denied THEN Raise
    ELSE frameworks_loop(d, 1, <<>>)

LoopEntries ==
    { Entry("package.json", "file", {"react-dom", "vue", "electron"}, FALSE),
      Entry("package.json", "file", {"name"}, FALSE),
      Entry("package.json", "dir", {}, FALSE),
      Entry("next.config.js", "file", {"module"}, FALSE),
      Entry("next.config.mjs", "file", {"export"}, FALSE),
      Entry("next.config.ts", "file", {"export"}, FALSE),
      Entry("tauri.conf.json", "file", {"build"}, FALSE),
      Entry("src-tauri", "dir", {}, FALSE),
      Entry("angular.json", "file", {"projects"}, FALSE),
      Entry("manage.py", "file", {"django"}, FALSE),
      Entry("requirements.txt", "file", {"flask", "fastapi"}, FALSE),
      Entry("pom.xml", "file", {"spring"}, FALSE),
      Entry("app.sln", "file", {"solution"}, FALSE),
      Entry("app.csproj", "file", {"project"}, FALSE) }

InitFrameworkLoop ==
    /\ \E S \in { T \in SUBSET LoopEntries :
                     /\ Cardinality(T) <= MaxFiles + 1
                     /\ \A a, b \in T : a.name = b.name => a = b } :
          fs = FrameworkWorld(S)
    /\ directories = <<>>
    /\ max_depth = 0
    /\ pc = "frameworks"
    /\ di = 0
    /\ remaining = {}
    /\ projects = <<>>
    /\ seen_paths = {}
    /\ yielded = <<>>
    /\ stack = <<>>
    /\ target_dir = Path(TRUE, P)
    /\ languages = <<>>
    /\ ExtIdle

DetectFrameworksLoop ==
    /\ pc = "frameworks"
    /\ outcome' = detect_frameworks_loop(target_dir)
    /\ pc' = "frameworks_done"
    /\ UNCHANGED <<fs, directories, max_depth, di, remaining, projects, seen_paths,
                   yielded, stack, target_dir, languages, denied, db, _projects, earlier>>

\* detect_languages beside detect_frameworks, as _create_project calls them
DetectBoth ==
    /\ pc = "frameworks"
    /\ outcome' = detect_frameworks_loop(target_dir)
    /\ languages' = detect_languages(target_dir)
    /\ pc' = "both_done"
    /\ UNCHANGED <<fs, directories, max_depth, di, remaining, projects, seen_paths,
                   yielded, stack, target_dir, denied, db, _projects, earlier>>

NextFrameworkLoop == DetectFrameworksLoop \/ DetectBoth

SpecFrameworkLoop == InitFrameworkLoop /\ [][NextFrameworkLoop]_vars

\* the place of a framework in FRAMEWORK_MARKERS
FrameworkAt(n) == CHOOSE i \in 1..Len(FRAMEWORK_MARKERS) : FRAMEWORK_MARKERS[i].name = n

\* C24: the list detect_frameworks returns holds no framework twice and is
\* in the declaration order of the framework table, also when several markers
\* of a framework exist and when React, Vue and Electron are confirmed from
\* the same package.json.
C24_FrameworkOnceInOrder ==
    (pc = "frameworks_done" /\ ~outcome.raised) =>
        /\ \A i, j \in 1..Len(outcome.value) :
              i < j => FrameworkAt(outcome.value[i]) < FrameworkAt(outcome.value[j])
        /\ outcome.value = detect_frameworks(target_dir).value

\* React, Vue and Electron come from one package.json, and Next.js from two
\* of its markers
C24_Witness ==
    /\ pc = "frameworks_done"
    /\ {"package.json", "next.config.js", "next.config.mjs"} \subseteq listdir(target_dir)
    /\ outcome = Return(<<"React", "Vue", "Next.js", "Electron">>)


\* C30: ".NET" is never in the result of detect_frameworks, whatever the
\* directory holds; a directory holding only .sln or .csproj files gets the
\* language C# and no framework.
C30_DotNetNeverDetected ==
    /\ (pc \in {"frameworks_done", "both_done"} /\ ~outcome.raised) =>
          ~InSeq(".NET", outcome.value)
    /\ (/\ pc = "both_done"
        /\ listdir(target_dir) # {}
        /\ listdir(target_dir) \subseteq {"app.sln", "app.csproj"}) =>
          /\ languages = <<"C#">>
          /\ outcome = Return(<<>>)

C30_Witness ==
    /\ pc = "both_done"
    /\ listdir(target_dir) = {"app.sln"}
    /\ languages = <<"C#">>
    /\ outcome = Return(<<>>)


(***************************************************************************)
(* scan_directories with the construction of a record as a step of its     *)
(* own: an entry is tested (is_dir, _should_skip), then _create_project    *)
(* runs, and the directory may be removed in between, after                *)
(* detect_languages has seen it exist.  `earlier` lists the candidates in  *)
(* the order they were tested, `outcome` those whose construction raised.  *)
(***************************************************************************)
BuildChildren == {"py", "node", "bad"}

\* "bad" holds a directory named package.json: its content check raises
BuildTree(n) ==
    IF n = "bad"
    THEN Dir(Append(W, n)) @@ Dir(W \o <<n, "package.json">>)
    ELSE ChildTree(n)

BuildWorld(children) ==
    WithEntries(MergeAll({Dir(<<"home">>), Dir(W), Link(<<"home", "ln">>, W)}
                         \cup {BuildTree(n) : n \in children}))

BuildRoots == { Path(TRUE, W), Path(TRUE, <<"home", "ln">>), Path(TRUE, <<"home", "none">>) }

InitBuild ==
    /\ \E children \in SUBSET BuildChildren : fs = BuildWorld(children)
    /\ directories \in SeqsUpTo(BuildRoots, MaxRoots)
    /\ max_depth = 0
    /\ pc = "for_directory"
    /\ di = 0
    /\ remaining = {}
    /\ projects = <<>>
    /\ seen_paths = {}
    /\ yielded = <<>>
    /\ stack = <<>>
    /\ target_dir = Path(TRUE, <<>>)
    /\ languages = <<>>
    /\ outcome = <<>>
    /\ denied = {}
    /\ db = <<>>
    /\ _projects = <<>>
    /\ earlier = <<>>

\* if item.is_dir() and not self._should_skip(item): a candidate is found
BuildTest ==
    /\ pc = "iterdir"
    /\ \E item \in remaining :
          /\ remaining' = remaining \ {item}
          /\ IF shallow_candidate(item)
             THEN /\ pc' = "create"
                  /\ target_dir' = item
                  /\ earlier' = Append(earlier, <<di, item>>)
             ELSE UNCHANGED <<pc, target_dir, earlier>>
    /\ UNCHANGED <<fs, directories, max_depth, di, projects, seen_paths, yielded, stack,
                   languages, outcome, denied, db, _projects>>

\* _create_project(path) as a call: an exception of the classifier (here also
\* the FileNotFoundError of the extension search in a directory that has
\* gone) is caught by `except Exception` and gives None
create_project_call(path, serial) ==
    IF ~exists(path) THEN [raised |-> TRUE, project |-> <<>>]
    ELSE [raised |-> detect_frameworks(path).raised, project |-> _create_project(path, serial)]

\* variant: an exception of the construction leaves scan_directories
BuildRecordPropagating ==
    /\ pc = "create"
    /\ \E built \in { create_project_call(target_dir, Len(yielded) + 1) } :
          /\ outcome' = IF built.raised THEN Append(outcome, <<di, target_dir>>) ELSE outcome
          /\ pc' = IF built.raised THEN "done" ELSE "iterdir"
          /\ IF built.project # <<>>
             THEN /\ yielded' = Append(yielded, [root |-> directories[di], root_index |-> di,
                                                 project |-> built.project[1]])
                  /\ projects' = keep_first(projects, seen_paths, built.project[1]).projects
                  /\ seen_paths' = keep_first(projects, seen_paths, built.project[1]).seen_paths
             ELSE UNCHANGED <<yielded, projects, seen_paths>>
    /\ UNCHANGED <<fs, directories, max_depth, di, remaining, stack, target_dir, languages,
                   denied, db, _projects, earlier>>

\* project = self._create_project(item); if project: yield project
BuildRecord ==
    /\ pc = "create"
    /\ \E built \in { create_project_call(target_dir, Len(yielded) + 1) } :
          /\ outcome' = IF built.raised THEN Append(outcome, <<di, target_dir>>) ELSE outcome
          /\ IF built.project # <<>>
             THEN /\ yielded' = Append(yielded, [root |-> directories[di], root_index |-> di,
                                                 project |-> built.project[1]])
                  /\ projects' = keep_first(projects, seen_paths, built.project[1]).projects
                  /\ seen_paths' = keep_first(projects, seen_paths, built.project[1]).seen_paths
             ELSE UNCHANGED <<yielded, projects, seen_paths>>
    /\ pc' = "iterdir"
    /\ UNCHANGED <<fs, directories, max_depth, di, remaining, stack, target_dir, languages,
                   denied, db, _projects, earlier>>

\* another process removes the candidate while it is being classified
EnvRemoveCandidate ==
    /\ pc = "create"
    /\ exists(target_dir)
    /\ fs' = Without(fs, Resolve(target_dir))
    /\ UNCHANGED <<directories, max_depth, pc, di, remaining, projects, seen_paths, yielded,
                   stack, target_dir, languages, ext_vars>>

NextBuild ==
    \/ ScanDirectory
    \/ BuildTest
    \/ BuildRecord
    \/ EnvRemoveCandidate
    \/ EndIterdir
    \/ ReturnProjects

SpecBuild == InitBuild /\ [][NextBuild]_vars

SeqSet(s) == { s[i] : i \in 1..Len(s) }

\* the records the generators have handed out, each with the root it came from
Handed == { <<yielded[i].root_index, yielded[i].project.path>> : i \in 1..Len(yielded) }

\* C25: a candidate whose record construction raised is the only one left
\* out: at every moment the records handed out are those of the candidates
\* built so far less the ones that raised, the result holds the path of each
\* of them, and when the scan has returned every candidate of every scanned
\* root has been tested and built.
C25_OnlyFailingCandidateOmitted ==
    /\ Handed = (SeqSet(earlier) \ (IF pc = "create" THEN {<<di, target_dir>>} ELSE {}))
                    \ SeqSet(outcome)
    /\ ProjectPaths = { h[2] : h \in Handed }
    /\ pc = "done" =>
          \A k \in 1..Len(directories) :
              root_is_scanned(directories[k]) =>
                 \A item \in iterdir(directories[k]) :
                     shallow_candidate(item) => <<k, item>> \in SeqSet(earlier)

\* the construction raised for a candidate between two emitted ones of the
\* first root, and the second root has given a record after it
C25_Witness ==
    /\ pc = "done"
    /\ \E i, j, k \in 1..Len(earlier) :
          /\ i < j /\ j < k
          /\ earlier[i][1] = 1 /\ earlier[k][1] = 1
          /\ earlier[j] \in SeqSet(outcome)
          /\ earlier[i] \in Handed
          /\ earlier[k] \in Handed
    /\ \E h \in Handed : h[1] = 2


(***************************************************************************)
(* Both scan modes over trees with directories that cannot be listed: a    *)
(* directory without permissions at all (in `denied`) or without the read  *)
(* bit.  Path.iterdir() on such a directory raises PermissionError.        *)
(* `earlier` lists the permission errors raised during the scan: where     *)
(* they came from, how many records had been yielded, whether an `except   *)
(* PermissionError` caught them.                                           *)
(***************************************************************************)
V == <<"home", "v">>
Q == <<"home", "q">>

\* the directories of f named in S lose their read bit
WithoutReadBit(f, S) ==
    [p \in DOMAIN f |-> IF p \in S THEN [f[p] EXCEPT !.readable = FALSE] ELSE f[p]]

\* /home/w holds py and emp, /home/v holds node; /home/q holds the plain
\* directory a with the project x in it, and the project b
PermissionTree ==
    MergeAll({ Dir(<<"home">>), Dir(W), Dir(V), Dir(Q),
               ChildTree("py"), ChildTree("emp"),
               Dir(Append(V, "node")), File(V \o <<"node", "package.json">>, {"name"}, 2),
               Dir(Append(Q, "a")), Dir(Q \o <<"a", "x">>),
               File(Q \o <<"a", "x", "pyproject.toml">>, {"project"}, 2),
               Dir(Append(Q, "b")), File(Q \o <<"b", "go.mod">>, {"module"}, 2) })

unlistable(d) == d \in denied \/ ~fs[d].readable

PermissionError(origin, path, caught) ==
    [origin |-> origin, path |-> path, at |-> Len(yielded), caught |-> caught]

InitPermission ==
    /\ \E no_read \in SUBSET {W, V, Q, Append(Q, "a")} :
          fs = WithoutReadBit(WithEntries(PermissionTree), no_read)
    /\ denied \in SUBSET {W, V, Q, Append(Q, "a"), Append(Q, "b"), Append(W, "py")}
    /\ Cardinality(denied) <= 2
    /\ \/ /\ directories \in SeqsUpTo({Path(TRUE, W), Path(TRUE, V)}, MaxRoots)
          /\ pc = "for_directory"
          /\ target_dir = Path(TRUE, <<>>)
          /\ stack = <<>>
       \/ /\ directories = <<>>
          /\ pc = "recursive"
          /\ target_dir = Path(TRUE, Q)
          /\ stack = <<Frame(Path(TRUE, Q), 0)>>
    /\ max_depth = MaxDepth
    /\ di = 0
    /\ remaining = {}
    /\ projects = <<>>
    /\ seen_paths = {}
    /\ yielded = <<>>
    /\ languages = <<>>
    /\ outcome = <<>>
    /\ db = <<>>
    /\ _projects = <<>>
    /\ earlier = <<>>

\* variant: scan_directory without its `except PermissionError`
PermScanDirectoryUncaught ==
    /\ pc = "for_directory"
    /\ di < Len(directories)
    /\ di' = di + 1
    /\ remaining' = IF root_is_scanned(directories[di + 1])
                       /\ ~unlistable(Resolve(directories[di + 1]))
                    THEN iterdir(directories[di + 1]) ELSE {}
    /\ IF ~root_is_scanned(directories[di + 1])
       THEN pc' = "for_directory" /\ UNCHANGED <<earlier, outcome>>
       ELSE IF unlistable(Resolve(directories[di + 1]))
       THEN /\ earlier' = Append(earlier,
                                 PermissionError("iterdir", directories[di + 1], FALSE))
            /\ outcome' = Raise
            /\ pc' = "raised"
       ELSE pc' = "iterdir" /\ UNCHANGED <<earlier, outcome>>
    /\ UNCHANGED <<fs, directories, max_depth, projects, seen_paths, yielded, stack,
                   target_dir, languages, denied, db, _projects>>

\* scan_directory up to its listing: root_path.iterdir() raises
\* PermissionError inside the try block, the handler passes, the generator ends
PermScanDirectory ==
    /\ pc = "for_directory"
    /\ di < Len(directories)
    /\ di' = di + 1
    /\ remaining' = IF root_is_scanned(directories[di + 1])
                       /\ ~unlistable(Resolve(directories[di + 1]))
                    THEN iterdir(directories[di + 1]) ELSE {}
    /\ IF ~root_is_scanned(directories[di + 1])
       THEN pc' = "for_directory" /\ UNCHANGED earlier
       ELSE IF unlistable(Resolve(directories[di + 1]))
       THEN /\ earlier' = Append(earlier,
                                 PermissionError("iterdir", directories[di + 1], TRUE))
            /\ pc' = "for_directory"
       ELSE pc' = "iterdir" /\ UNCHANGED earlier
    /\ UNCHANGED <<fs, directories, max_depth, projects, seen_paths, yielded, stack,
                   target_dir, languages, outcome, denied, db, _projects>>

\* the frame on top starts: depth test, marker test, listing.  A
\* PermissionError of the marker test is raised outside the frame's try
\* block: it leaves the frame and, through `yield from`, reaches the try
\* block of the frame below, which ends; out of the outermost frame it
\* reaches the caller.  A PermissionError of the listing is caught by the
\* frame itself.
PermRecEnter ==
    /\ pc = "recursive"
    /\ stack # <<>>
    /\ ~Top.started
    /\ IF depth_exceeded(Top.depth)
       THEN /\ stack' = Pop
            /\ UNCHANGED <<yielded, earlier, outcome, pc>>
       ELSE \E marked \in { is_project_call(Top.path) } :
            IF marked.raised
            THEN /\ earlier' = Append(earlier,
                                      PermissionError("_is_project", Top.path, Len(stack) > 1))
                 /\ stack' = IF Len(stack) > 1 THEN SubSeq(stack, 1, Len(stack) - 2) ELSE <<>>
                 /\ outcome' = IF Len(stack) > 1 THEN outcome ELSE Raise
                 /\ pc' = IF Len(stack) > 1 THEN pc ELSE "raised"
                 /\ UNCHANGED yielded
            ELSE IF marked.value
            THEN \E project \in { _create_project(Top.path, Len(yielded) + 1) } :
                    /\ yielded' = IF project # <<>>
                                  THEN Append(yielded, [root |-> target_dir, root_index |-> 1,
                                                        project |-> project[1]])
                                  ELSE yielded
                    /\ stack' = Pop
                    /\ UNCHANGED <<earlier, outcome, pc>>
            ELSE IF unlistable(Resolve(Top.path))
            THEN /\ earlier' = Append(earlier, PermissionError("iterdir", Top.path, TRUE))
                 /\ stack' = Pop
                 /\ UNCHANGED <<yielded, outcome, pc>>
            ELSE /\ stack' = [stack EXCEPT ![Len(stack)] =
                                 [@ EXCEPT !.started = TRUE, !.remaining = iterdir(Top.path)]]
                 /\ UNCHANGED <<yielded, earlier, outcome, pc>>
    /\ UNCHANGED <<fs, directories, max_depth, di, remaining, projects, seen_paths,
                   target_dir, languages, denied, db, _projects>>

NextPermission ==
    \/ PermScanDirectory
    \/ NextItem
    \/ EndIterdir
    \/ ReturnProjects
    \/ PermRecEnter
    \/ RecNextItem
    \/ RecExit
    \/ RecDone

SpecPermission == InitPermission /\ [][NextPermission]_vars

\* every directory from the scan root down to the parent of path can be listed
ListableDownTo(root, path) ==
    \A a \in AncestorsWithin(root, path) : ~unlistable(Resolve(a))

MarkerTestRaised == \E i \in 1..Len(earlier) : earlier[i].origin = "_is_project"

\* C26: a PermissionError raised by the listing of a directory is caught in
\* both modes.  A shallow scan that has returned holds the records of the
\* children of every root that can be listed; a recursive scan that has
\* ended (no marker test having raised) holds the project of every directory
\* that is reached through directories that can be listed, and none below a
\* directory that cannot.
C26_ListingErrorNotSurfaced ==
    /\ \A i \in 1..Len(earlier) : earlier[i].origin = "iterdir" => earlier[i].caught
    /\ (outcome # <<>> /\ outcome.raised) => MarkerTestRaised
    /\ pc = "done" =>
          ProjectPaths =
             UNION { ChildrenOf(directories[k]) :
                        k \in { j \in 1..Len(directories) :
                                   ~unlistable(Resolve(directories[j])) } }
    /\ (pc = "rec_done" /\ ~MarkerTestRaised) =>
          \A d \in DirsUnder(target_dir) :
              Emitted(d) <=> /\ is_project_call(d).value
                             /\ Unblocked(target_dir, d)
                             /\ DepthOf(target_dir, d) <= max_depth
                             /\ ListableDownTo(target_dir, d)

\* a recursive scan has ended after the listing of /home/q/a raised, and the
\* sibling b was handed out after that
C26_Witness ==
    /\ pc = "rec_done"
    /\ ~MarkerTestRaised
    /\ \E i \in 1..Len(earlier) :
          /\ earlier[i].origin = "iterdir"
          /\ earlier[i].path = Path(TRUE, Append(Q, "a"))
          /\ earlier[i].at < Len(yielded)
    /\ Emitted(Path(TRUE, Append(Q, "b")))


(***************************************************************************)
(* _create_project over directories holding activity files of different    *)
(* modification times, with a .git directory that may have no permissions, *)
(* and over a directory that is no longer there when it is classified.     *)
(***************************************************************************)
ActivityEntries ==
    { [file |-> check_files[i], mtime |-> t] : i \in 1..Len(check_files), t \in {2, 3, 4} }

ModifiedWorld(S, present) ==
    WithEntries(MergeAll(
        {Dir(<<"home">>)}
        \cup (IF present THEN {Dir(P)} ELSE {})
        \cup { File(P \o e.file, {"text"}, e.mtime) : e \in S }
        \cup { Dir(Append(P, e.file[1])) : e \in { x \in S : Len(x.file) > 1 } }))

InitModified ==
    /\ \E S \in { T \in SUBSET ActivityEntries :
                     /\ Cardinality(T) <= MaxFiles
                     /\ \A a, b \in T : a.file = b.file => a = b } :
          \/ /\ fs = ModifiedWorld(S, TRUE)
             /\ denied \in { {} } \cup { {Append(P, ".git")} : x \in { e \in S : Len(e.file) > 1 } }
          \/ /\ S = {}
             /\ fs = ModifiedWorld({}, FALSE)
             /\ denied = {}
    /\ directories = <<>>
    /\ max_depth = 0
    /\ pc = "frameworks"
    /\ di = 0
    /\ remaining = {}
    /\ projects = <<>>
    /\ seen_paths = {}
    /\ yielded = <<>>
    /\ stack = <<>>
    /\ target_dir = Path(TRUE, P)
    /\ languages = <<>>
    /\ outcome = <<>>
    /\ db = <<>>
    /\ _projects = <<>>
    /\ earlier = <<>>

NextModified == CreateProject

SpecModified == InitModified /\ [][NextModified]_vars

\* the activity files that exist under the classified directory
ActivityFound == { i \in 1..Len(check_files) : exists(Path(TRUE, P \o check_files[i])) }

\* a stat of the classified directory or of an activity file fails
StatFails == ~exists(target_dir) \/ Append(P, ".git") \in denied

\* C27: the record is emitted and its last-modified value is the largest
\* modification time among the activity files that exist, or the directory's
\* own modification time when none exists, or None when a stat fails.
C27_LastModified ==
    pc = "created" =>
        /\ outcome.value # <<>>
        /\ LET last_modified == outcome.value[1].last_modified IN
           IF StatFails THEN last_modified = <<>>
           ELSE IF ActivityFound = {} THEN last_modified = <<st_mtime(target_dir)>>
           ELSE /\ \E i \in ActivityFound :
                      last_modified = <<st_mtime(Path(TRUE, P \o check_files[i]))>>
                /\ \A i \in ActivityFound :
                      st_mtime(Path(TRUE, P \o check_files[i])) <= last_modified[1]

\* two activity files, the later one of the list being the older
C27_Witness ==
    /\ pc = "created"
    /\ ~StatFails
    /\ \E i, j \in ActivityFound :
          /\ i < j
          /\ st_mtime(Path(TRUE, P \o check_files[i])) > st_mtime(Path(TRUE, P \o check_files[j]))
          /\ outcome.value[1].last_modified = <<st_mtime(Path(TRUE, P \o check_files[i]))>>


(***************************************************************************)
(* Both traversals over trees with symbolic links that point back to an    *)
(* ancestor: _scan_recursive from /home/r, and the search of               *)
(* _has_files_with_extensions for '.rs' from /home/r, frame by frame.      *)
(* is_dir() follows links, so a link to an ancestor is a directory whose   *)
(* listing holds the link again.                                           *)
(***************************************************************************)
LoopWorld(has_a, back, rs) ==
    WithEntries(MergeAll(
        {Dir(<<"home">>), Dir(R), Link(Append(R, "up"), R)}
        \cup (IF has_a THEN {Dir(Append(R, "a"))} ELSE {})
        \cup (IF has_a /\ back = "root" THEN {Link(R \o <<"a", "back">>, R)} ELSE {})
        \cup (IF has_a /\ back = "self" THEN {Link(R \o <<"a", "back">>, Append(R, "a"))} ELSE {})
        \cup (IF rs = "bak" THEN {File(Append(R, "main.rs.bak"), {"fn"}, 2)} ELSE {})
        \cup (IF has_a /\ rs = "a" THEN {File(R \o <<"a", "main.rs">>, {"fn"}, 2)} ELSE {})))

InitLoop ==
    /\ \E has_a \in BOOLEAN :
          \E back \in {"none", "root", "self"} :
             \E rs \in {"none", "bak", "a"} :
                fs = LoopWorld(has_a, back, rs)
    /\ \/ pc = "recursive" /\ max_depth \in 0..MaxDepth
       \/ pc = "search" /\ max_depth = search_max_depth
    /\ directories = <<>>
    /\ di = 0
    /\ remaining = {}
    /\ projects = <<>>
    /\ seen_paths = {}
    /\ yielded = <<>>
    /\ target_dir = Path(TRUE, R)
    /\ stack = <<Frame(Path(TRUE, R), 0)>>
    /\ languages = <<>>
    /\ ExtIdle

\* the extensions the search is run for
searched_extensions == {".rs"}

\* search(current_path, depth) starts: the depth test and the listing
SearchEnter ==
    /\ pc = "search"
    /\ stack # <<>>
    /\ ~Top.started
    /\ IF Top.depth > max_depth
       THEN /\ stack' = Pop
            /\ outcome' = IF Len(stack) = 1 THEN Return(FALSE) ELSE outcome
            /\ pc' = IF Len(stack) = 1 THEN "searched" ELSE pc
       ELSE /\ stack' = [stack EXCEPT ![Len(stack)] =
                            [@ EXCEPT !.started = TRUE, !.remaining = iterdir(Top.path)]]
            /\ UNCHANGED <<outcome, pc>>
    /\ UNCHANGED <<fs, directories, max_depth, di, remaining, projects, seen_paths, yielded,
                   target_dir, languages, denied, db, _projects, earlier>>

\* one turn of `for item in current_path.iterdir()`: a hidden or denylisted
\* name is passed over, a file with a matching suffix ends every frame with
\* True, a directory above the depth bound is searched in a new frame
SearchItem ==
    /\ pc = "search"
    /\ stack # <<>>
    /\ Top.started
    /\ \E item \in Top.remaining :
          LET rest == [stack EXCEPT ![Len(stack)] = [@ EXCEPT !.remaining = @ \ {item}]] IN
          IF startswith_dot(name(item)) \/ name(item) \in search_skip_names
          THEN stack' = rest /\ UNCHANGED <<outcome, pc>>
          ELSE IF is_file(item)
          THEN IF lower(suffix(name(item))) \in searched_extensions
               THEN stack' = <<>> /\ outcome' = Return(TRUE) /\ pc' = "searched"
               ELSE stack' = rest /\ UNCHANGED <<outcome, pc>>
          ELSE IF is_dir(item) /\ Top.depth < max_depth
          THEN stack' = Append(rest, Frame(item, Top.depth + 1)) /\ UNCHANGED <<outcome, pc>>
          ELSE stack' = rest /\ UNCHANGED <<outcome, pc>>
    /\ UNCHANGED <<fs, directories, max_depth, di, remaining, projects, seen_paths, yielded,
                   target_dir, languages, denied, db, _projects, earlier>>

\* the listing is exhausted: this frame returns False
SearchExit ==
    /\ pc = "search"
    /\ stack # <<>>
    /\ Top.started
    /\ Top.remaining = {}
    /\ stack' = Pop
    /\ outcome' = IF Len(stack) = 1 THEN Return(FALSE) ELSE outcome
    /\ pc' = IF Len(stack) = 1 THEN "searched" ELSE pc
    /\ UNCHANGED <<fs, directories, max_depth, di, remaining, projects, seen_paths, yielded,
                   target_dir, languages, denied, db, _projects, earlier>>

NextLoop ==
    \/ RecEnter
    \/ RecNextItem
    \/ RecExit
    \/ RecDone
    \/ SearchEnter
    \/ SearchItem
    \/ SearchExit

\* the traversal is a sequential computation: it takes its next step
\* whenever it has one
SpecLoop == InitLoop /\ [][NextLoop]_vars /\ WF_vars(NextLoop)

\* no frame has listed a directory deeper than the bound, and no frame
\* exists more than one level below it
DepthBounded ==
    /\ \A i \in 1..Len(stack) :
          /\ stack[i].depth <= max_depth + 1
          /\ stack[i].started => stack[i].depth <= max_depth
    /\ pc = "searched" =>
          outcome = Return(_has_files_with_extensions(Resolve(target_dir), searched_extensions,
                                                      search_max_depth))

\* C28: with a symbolic link pointing back to an ancestor, the recursive scan
\* and the extension search list no directory deeper than their depth bound,
\* and each of them ends.
C28_TraversalsEnd ==
    /\ []DepthBounded
    /\ <>(pc \in {"rec_done", "searched"})

\* a traversal has ended after it had gone through the link up to the bound
C28_Witness ==
    /\ pc \in {"rec_done", "searched"}
    /\ max_depth = MaxDepth
    /\ is_dir(Path(TRUE, R \o <<"up", "up">>))
    /\ outcome = <<>> \/ outcome = Return(FALSE)


\* the .rs files below the project directory, each as its parts relative to it
RustFilesBelow ==
    { SubSeq(q, Len(P) + 1, Len(q)) :
         q \in { q \in DOMAIN fs : /\ Len(q) > Len(P)
                                   /\ SubSeq(q, 1, Len(P)) = P
                                   /\ fs[q].kind = "file"
                                   /\ lower(suffix(q[Len(q)])) = ".rs" } }

\* no part of the relative path is hidden or on the denylist of the search
NothingPassedOver(rel) ==
    \A k \in 1..Len(rel) :
        ~startswith_dot(rel[k]) /\ rel[k] \notin {"node_modules", "venv", "__pycache__",
                                                   "target", "build", "dist"}

\* C29: without a Rust marker file, Rust is detected when a .rs file lies
\* directly in the project directory, in a child directory or in a grandchild
\* directory, none of them hidden or denylisted, and is not detected when the
\* only .rs files lie three or more directory levels down.
C29_SearchTwoLevels ==
    (pc = "detected" /\ ~exists(Join(target_dir, "Cargo.toml"))) =>
        /\ (\E rel \in RustFilesBelow : Len(rel) <= 3 /\ NothingPassedOver(rel))
              => InSeq("Rust", languages)
        /\ (\A rel \in RustFilesBelow : Len(rel) >= 4) => ~InSeq("Rust", languages)

\* the only .rs file lies in a great-grandchild directory and Rust is not detected
C29_Witness ==
    /\ pc = "detected"
    /\ RustFilesBelow = {<<"src", "a", "b", "main.rs">>}
    /\ ~InSeq("Rust", languages)

====
